---- MODULE Spec2Model ----
(***************************************************************************)
(* A model of the storage abstraction of storage-poc: the range storages   *)
(* (inline, allocator-backed, Fallback, Alternative and the small storage  *)
(* built on Alternative), the Alternative and the small single-element     *)
(* storages, the inline, allocator-backed and Fallback multi-element       *)
(* storages, each driven by a caller that follows the handle discipline of *)
(* the trait contract, and the Capacity types of the range storages.       *)
(***************************************************************************)
EXTENDS Integers, Sequences, FiniteSets, TLC

VARIABLES
    kind,   \* which storage type the caller instantiated
    T,      \* the element type of the calls: [size, align]
    st,     \* the storage and the injected allocator
    held,   \* the handle the caller currently holds
    ret,    \* what the last call was and what it returned
    ub      \* an access outside the language's rules has happened

vars == <<kind, T, st, held, ret, ub>>

(***************************************************************************)
(* Bounds of the model.                                                    *)
(***************************************************************************)
MaxCap == 2         \* largest capacity a caller requests
MaxAllocs == 2      \* allocations the injected allocator serves before it is exhausted
InlineN == 1        \* N of inline::SingleRange<C, S, N>
InlineSize == 1     \* size_of::<S>() of the inline placeholder
InlineAlign == 1    \* align_of::<S>() of the inline placeholder
FirstCapMax == 1    \* C::max() of the inline storage's capacity type
MaxLayoutSize == 7  \* largest size Layout::array accepts (isize::MAX, scaled)
MaxVal == 1         \* values a caller stores in an element storage are 1..MaxVal
MultiN == 2         \* N of inline::MultiElement<S, N>
MaxCreates == 4     \* create calls a caller makes on an allocator-backed MultiElement
UsizeBits == 5      \* width of usize; u32, u16 and u8 are 1, 2 and 3 bits narrower
NarrowN == 2        \* N of an inline storage with more slots than its capacity type counts
NarrowCapMax == 0   \* C::max() of that storage's capacity type

SmallN == 1         \* small::SingleRange is built on inline::SingleRange<usize, S, 1>
INVALID_NEXT == 255 \* the free list's sentinel (usize::MAX, scaled)

(***************************************************************************)
(* Element types, as (size, align): (), u8, [u8; 3], u32.                  *)
(***************************************************************************)
ElemTypes ==
    { [size |-> 0, align |-> 1], [size |-> 1, align |-> 1],
      [size |-> 3, align |-> 1], [size |-> 4, align |-> 4] }

\* "alt_narrow" is an Alternative whose First is an inline storage of NarrowN
\* slots with a capacity type that ends at NarrowCapMax.
RangeKinds == {"inline", "allocator", "fallback", "alternative", "small", "alt_narrow"}
AltKinds == {"alternative", "small", "alt_narrow"}

\* "inline_narrow" is that inline storage on its own; a RawVec is built over it.
InlineKinds == {"inline", "inline_narrow"}

Min(a, b) == IF a < b THEN a ELSE b

Uninit == 0
Stamp(i) == i       \* the value the caller writes at position i (1-based)
Wild == -1          \* an element that lies outside every live object

Fresh(n) == [i \in 1..n |-> Uninit]

(***************************************************************************)
(* The injected allocator (core::alloc::Allocator; SpyAllocator and        *)
(* NonAllocator of utils.rs): live blocks by pointer, each an array of T;  *)
(* pointers are never reused, so a stale pointer never names a new block.  *)
(***************************************************************************)
CanServe(s) == s.allocated < MaxAllocs

\* The calls the allocator receives during one call of the storage, in order.
Logged(s, e) == [s EXCEPT !.log = Append(@, e)]

Matches(s, p, n) == p \in DOMAIN s.heap /\ Len(s.heap[p]) = n

\* The allocator's own work on a request for n elements and on a release.
Serve(s, n, ok) ==
    IF ok /\ CanServe(s)
    THEN LET p == s.allocated + 1 IN
         [ok |-> TRUE, ptr |-> p,
          s |-> [s EXCEPT !.heap = @ @@ (p :> Fresh(n)), !.allocated = @ + 1]]
    ELSE [ok |-> FALSE, ptr |-> 0, s |-> s]

Release(s, p, n) ==
    IF Matches(s, p, n)
    THEN [s EXCEPT !.heap = [q \in DOMAIN s.heap \ {p} |-> s.heap[q]],
                   !.deallocated = @ + 1]
    ELSE [s EXCEPT !.bad = TRUE, !.deallocated = @ + 1]

AllocatorAllocate(s, n, ok) ==
    LET a == Serve(s, n, ok) IN
    [a EXCEPT !.s = Logged(a.s, [call |-> "allocate", ptr |-> a.ptr, n |-> n])]

AllocatorDeallocate(s, p, n) ==
    Logged(Release(s, p, n), [call |-> "deallocate", ptr |-> p, n |-> n])

\* Allocator::grow and Allocator::shrink as the trait provides them: allocate the
\* new block, copy, deallocate the old one; on failure the old block is untouched.
AllocatorResize(s, p, oldn, newn, ok) ==
    LET a == Serve(s, newn, ok)
        e == [call |-> IF newn > oldn THEN "grow" ELSE "shrink", ptr |-> p, n |-> newn]
    IN
    IF ~a.ok THEN [a EXCEPT !.s = Logged(a.s, e)]
    ELSE LET copied == [i \in 1..newn |->
                          IF i <= oldn /\ Matches(s, p, oldn) THEN s.heap[p][i] ELSE Uninit]
             s1 == [a.s EXCEPT !.heap[a.ptr] = copied]
         IN [ok |-> TRUE, ptr |-> a.ptr, s |-> Logged(Release(s1, p, oldn), e)]

(***************************************************************************)
(* utils.rs: layout validation.                                            *)
(***************************************************************************)
\* An array layout that never overflows.
LayoutNeverOverflows(t, n) == TRUE

LayoutArrayOk(t, n) == n * t.size <= MaxLayoutSize

\* A validation that looks at the size alone.
validate_size_only(size, align, storageSize, storageAlign) == size <= storageSize

validate_layout_for(size, align, storageSize, storageAlign) ==
    size <= storageSize /\ align <= storageAlign

validate_array_layout(t, n, storageSize, storageAlign) ==
    /\ LayoutArrayOk(t, n)
    /\ validate_layout_for(n * t.size, t.align, storageSize, storageAlign)

(***************************************************************************)
(* Handles.                                                                *)
(***************************************************************************)
NoHandle == [tag |-> "None", ptr |-> 0, len |-> 0]
Handle(tag, p, n) == [tag |-> tag, ptr |-> p, len |-> n]
dangling_handle(tag) == Handle(tag, 0, 0)

\* The pointers a garbage handle can hold. Reading the `second` field of a union
\* handle written through `first` yields any bits.
Garbage == [ptr : 0..MaxAllocs, len : 0..MaxCap]

(***************************************************************************)
(* inline::SingleRange<C, S, N>.                                           *)
(***************************************************************************)
NOf(k) ==
    CASE k = "small" -> SmallN [] k = "alt_element" -> 1
      [] k \in {"alt_narrow", "inline_narrow"} -> NarrowN
      [] OTHER -> InlineN

\* The whole elements of t inside the storage's own memory.
PhysElems(k, t) ==
    IF t.size = 0 THEN NOf(k) ELSE (NOf(k) * InlineSize) \div t.size

InlineAllocate(k, t, capacity) ==
    validate_array_layout(t, capacity, NOf(k) * InlineSize, InlineAlign)

\* get: a slice of N elements starting at the storage's data.
InlineGetLen(k) == NOf(k)

(***************************************************************************)
(* allocator::SingleRange<A>; its handle is the slice pointer itself.      *)
(***************************************************************************)
AllocRangeAllocate(s, t, tag, capacity, ok) ==
    IF capacity = 0 THEN [ok |-> TRUE, h |-> dangling_handle(tag), s |-> s]
    ELSE IF ~LayoutArrayOk(t, capacity) THEN [ok |-> FALSE, h |-> NoHandle, s |-> s]
    ELSE LET a == AllocatorAllocate(s, capacity, ok) IN
         [ok |-> a.ok, h |-> IF a.ok THEN Handle(tag, a.ptr, capacity) ELSE NoHandle,
          s |-> a.s]

AllocRangeDeallocate(s, h) ==
    IF h.len > 0 THEN AllocatorDeallocate(s, h.ptr, h.len) ELSE s

AllocRangeTryGrow(s, t, tag, h, new_capacity, ok) ==
    IF h.len = 0 THEN AllocRangeAllocate(s, t, tag, new_capacity, ok)
    ELSE IF ~LayoutArrayOk(t, new_capacity) THEN [ok |-> FALSE, h |-> NoHandle, s |-> s]
    ELSE LET r == AllocatorResize(s, h.ptr, h.len, new_capacity, ok) IN
         [ok |-> r.ok, h |-> IF r.ok THEN Handle(tag, r.ptr, new_capacity) ELSE NoHandle,
          s |-> r.s]

\* try_shrink that hands out the dangling handle and keeps the block.
ShrinkToZeroKeepsBlock(s, t, tag, h, new_capacity, ok) ==
    IF h.len = 0 THEN [ok |-> FALSE, h |-> NoHandle, s |-> s]
    ELSE IF new_capacity = 0 THEN [ok |-> TRUE, h |-> dangling_handle(tag), s |-> s]
    ELSE IF ~LayoutArrayOk(t, new_capacity) THEN [ok |-> FALSE, h |-> NoHandle, s |-> s]
    ELSE LET r == AllocatorResize(s, h.ptr, h.len, new_capacity, ok) IN
         [ok |-> r.ok, h |-> IF r.ok THEN Handle(tag, r.ptr, new_capacity) ELSE NoHandle,
          s |-> r.s]

AllocRangeTryShrink(s, t, tag, h, new_capacity, ok) ==
    IF h.len = 0 THEN [ok |-> FALSE, h |-> NoHandle, s |-> s]
    ELSE IF new_capacity = 0
    THEN [ok |-> TRUE, h |-> dangling_handle(tag), s |-> AllocatorDeallocate(s, h.ptr, h.len)]
    ELSE IF ~LayoutArrayOk(t, new_capacity) THEN [ok |-> FALSE, h |-> NoHandle, s |-> s]
    ELSE LET r == AllocatorResize(s, h.ptr, h.len, new_capacity, ok) IN
         [ok |-> r.ok, h |-> IF r.ok THEN Handle(tag, r.ptr, new_capacity) ELSE NoHandle,
          s |-> r.s]

(***************************************************************************)
(* Memory behind a resolved pointer. A pointer is the base it was derived  *)
(* from (the inline data or a heap block) and a length in elements.        *)
(***************************************************************************)
InlinePtr(k) == [base |-> "inline", ptr |-> 0, len |-> InlineGetLen(k)]
HeapPtr(h) == [base |-> "heap", ptr |-> h.ptr, len |-> h.len]

InBounds(s, p, i) ==
    IF p.base = "inline" THEN i <= Len(s.inl)
    ELSE p.ptr \in DOMAIN s.heap /\ i <= Len(s.heap[p.ptr])

ReadAt(s, p, i) ==
    IF ~InBounds(s, p, i) THEN Wild
    ELSE IF p.base = "inline" THEN s.inl[i] ELSE s.heap[p.ptr][i]

\* The elements a caller sees through the pointer.
View(s, p) == [i \in 1..p.len |-> ReadAt(s, p, i)]

WriteAt(s, p, i, v) ==
    IF ~InBounds(s, p, i) THEN s
    ELSE IF p.base = "inline" THEN [s EXCEPT !.inl[i] = v]
    ELSE [s EXCEPT !.heap[p.ptr][i] = v]

AllInBounds(s, p, n) == \A i \in 1..n : InBounds(s, p, i)

\* transfer: copy_nonoverlapping of min(from.len, to.len) elements. An element
\* read outside the source object has any value (gv).
RECURSIVE CopyElems(_, _, _, _, _)
CopyElems(s, from, to, n, gv) ==
    IF n = 0 THEN s
    ELSE LET v == IF InBounds(s, from, n) THEN ReadAt(s, from, n) ELSE gv
         IN CopyElems(WriteAt(s, to, n, v), from, to, n - 1, gv)

\* transfer that copies nothing.
TransferNothing(s, from, to, gv) == [s |-> s, ub |-> FALSE]

transfer(s, from, to, gv) ==
    LET n == Min(from.len, to.len) IN
    [s |-> CopyElems(s, from, to, n, gv),
     ub |-> ~(AllInBounds(s, from, n) /\ AllInBounds(s, to, n))]

(***************************************************************************)
(* Results of storage operations: ok, the handle returned, the storage     *)
(* afterwards, whether the call left the language's rules, and whether an  *)
(* Alternative switched sides.                                             *)
(***************************************************************************)
Res(ok, h, s, u, sw) == [ok |-> ok, h |-> h, s |-> s, ub |-> u, sw |-> sw]
Fail(s) == Res(FALSE, NoHandle, s, FALSE, FALSE)
OfAlloc(r) == Res(r.ok, r.h, r.s, FALSE, FALSE)

\* A default that accepts every resize and hands the handle back.
ResizeAlwaysSucceeds == TRUE

\* RangeStorage::try_grow / try_shrink as the trait provides them (not overridden
\* by the inline storage): always an error.
DefaultTryResize == FALSE

InlineRangeAllocate(k, s, t, tag, capacity) ==
    IF InlineAllocate(k, t, capacity) THEN Res(TRUE, Handle(tag, 0, 0), s, FALSE, FALSE)
    ELSE Fail(s)

\* into_first that converts like `as`: it never fails.
into_first_never_fails(k, capacity) == TRUE

\* into_first: F::Capacity::from_usize(capacity.into_usize()); usize for small.
into_first(k, capacity) ==
    k = "small" \/ capacity <= (IF k = "alt_narrow" THEN NarrowCapMax ELSE FirstCapMax)

(***************************************************************************)
(* fallback.rs: Fallback<inline::SingleRange, allocator::SingleRange>.     *)
(***************************************************************************)
\* resolve that hands every handle to the primary.
GetIgnoresTag(k, h) == InlinePtr(k)

FallbackGet(k, h) == IF h.tag = "Primary" THEN InlinePtr(k) ELSE HeapPtr(h)

\* self.primary.deallocate(first): the inline storage has nothing to release; the
\* call is recorded with the calls that reach the allocator.
PrimaryDeallocate(s, h) ==
    Logged(s, [call |-> "primary.deallocate", ptr |-> h.ptr, n |-> h.len])

FallbackDeallocate(s, h) ==
    IF h.tag = "Primary" THEN PrimaryDeallocate(s, h) ELSE AllocRangeDeallocate(s, h)

FallbackAllocate(k, s, t, capacity, ok) ==
    LET first == IF into_first(k, capacity)
                 THEN InlineRangeAllocate(k, s, t, "Primary", capacity) ELSE Fail(s)
    IN IF first.ok THEN first
       ELSE OfAlloc(AllocRangeAllocate(s, t, "Secondary", capacity, ok))

FallbackTryGrow(k, s, t, h, new_capacity, ok, gv) ==
    IF h.tag = "Primary"
    THEN IF into_first(k, new_capacity) /\ DefaultTryResize
         THEN Res(TRUE, h, s, FALSE, FALSE)
         ELSE LET second == AllocRangeAllocate(s, t, "Secondary", new_capacity, ok) IN
              IF ~second.ok THEN Fail(second.s)
              ELSE LET c == transfer(second.s, InlinePtr(k), HeapPtr(second.h), gv)
                   IN Res(TRUE, second.h, PrimaryDeallocate(c.s, h), c.ub, FALSE)
    ELSE OfAlloc(AllocRangeTryGrow(s, t, "Secondary", h, new_capacity, ok))

FallbackTryShrink(k, s, t, h, new_capacity, ok, gv) ==
    IF h.tag = "Primary"
    THEN IF into_first(k, new_capacity) /\ DefaultTryResize
         THEN Res(TRUE, h, s, FALSE, FALSE) ELSE Fail(s)
    ELSE LET first == IF into_first(k, new_capacity)
                      THEN InlineRangeAllocate(k, s, t, "Primary", new_capacity)
                      ELSE Fail(s)
         IN IF first.ok
            THEN LET c == transfer(s, HeapPtr(h), InlinePtr(k), gv)
                 IN Res(TRUE, first.h, AllocRangeDeallocate(c.s, h), c.ub, FALSE)
            ELSE OfAlloc(AllocRangeTryShrink(s, t, "Secondary", h, new_capacity, ok))

(***************************************************************************)
(* alternative/single_range.rs: SingleRange<F, S, FB, SB> with F the       *)
(* inline storage (rebuilt by DefaultBuilder) and S the allocator storage  *)
(* (rebuilt by AllocatorBuilder). The handle is an untagged union: its tag *)
(* here records which field was written, and the code never reads it.      *)
(***************************************************************************)
\* handle.second: the field as written, or any bits when `first` was written.
SecondField(h, g) == IF h.tag = "second" THEN h ELSE Handle("second", g.ptr, g.len)
ReadsGarbage(s, h) == s.inner = "Second" /\ h.tag # "second"

\* mem::replace(&mut self.0, Inner::Poisoned)
Poison(s) == [s EXCEPT !.inner = "Poisoned"]

\* self.0 = Inner::Second(second) / Inner::First(first), with the builder that
\* InnerElement::transform salvaged from the old side.
ReinstallSkipped(s, side, builder) == s

ReinstallKeepsBuilder(s, side, builder) == [s EXCEPT !.inner = side]

Reinstall(s, side, builder) == [s EXCEPT !.inner = side, !.builder = builder]

\* B::into_storage / OB::from_storage around the closure of transform. The inline
\* storage is dropped by DefaultBuilder::from_storage and default-constructed by
\* DefaultBuilder::into_storage; the allocator moves between storage and builder.
DropInline(s, k, t) == [s EXCEPT !.inl = Fresh(PhysElems(k, t))]

AltGet(k, s, h, g) ==
    IF s.inner = "First" THEN InlinePtr(k) ELSE HeapPtr(SecondField(h, g))

\* deallocate that goes back to the First side once the block is released.
AltDeallocateResets(s, h, g) ==
    IF s.inner = "First" THEN s
    ELSE [AllocRangeDeallocate(s, SecondField(h, g)) EXCEPT !.inner = "First"]

AltDeallocate(s, h, g) ==
    IF s.inner = "First" THEN s ELSE AllocRangeDeallocate(s, SecondField(h, g))

AltAllocate(k, s, t, capacity, ok) ==
    IF s.inner = "First"
    THEN LET first == IF into_first(k, capacity)
                      THEN InlineRangeAllocate(k, s, t, "first", capacity) ELSE Fail(s)
         IN IF first.ok THEN first
            ELSE LET p == Poison(s)
                     r == AllocRangeAllocate(p, t, "second", capacity, ok)
                     n == Reinstall(DropInline(r.s, k, t), "Second", "DefaultBuilder")
                 IN Res(r.ok, r.h, n, FALSE, TRUE)
    ELSE OfAlloc(AllocRangeAllocate(s, t, "second", capacity, ok))

AltTryGrow(k, s, t, h, new_capacity, ok, g, gv) ==
    IF s.inner = "First"
    THEN IF into_first(k, new_capacity) /\ DefaultTryResize
         THEN Res(TRUE, h, s, FALSE, FALSE)
         ELSE LET p == Poison(s)
                  r == AllocRangeAllocate(p, t, "second", new_capacity, ok)
                  c == IF r.ok THEN transfer(r.s, InlinePtr(k), HeapPtr(r.h), gv)
                       ELSE [s |-> r.s, ub |-> FALSE]
                  n == Reinstall(DropInline(c.s, k, t), "Second", "DefaultBuilder")
              IN Res(r.ok, r.h, n, c.ub, TRUE)
    ELSE OfAlloc(AllocRangeTryGrow(s, t, "second", SecondField(h, g), new_capacity, ok))

AltTryShrink(k, s, t, h, new_capacity, ok, g, gv) ==
    IF s.inner = "First"
    THEN IF into_first(k, new_capacity) /\ DefaultTryResize
         THEN Res(TRUE, h, s, FALSE, FALSE) ELSE Fail(s)
    ELSE LET hs == SecondField(h, g)
             shrink == AllocRangeTryShrink(s, t, "second", hs, new_capacity, ok)
         IN IF shrink.ok THEN OfAlloc(shrink)
            ELSE IF ~into_first(k, new_capacity) THEN Fail(shrink.s)
            ELSE LET p == DropInline(Poison(shrink.s), k, t)
                     r == InlineRangeAllocate(k, p, t, "first", new_capacity)
                     c == IF r.ok THEN transfer(r.s, HeapPtr(hs), InlinePtr(k), gv)
                          ELSE [s |-> r.s, ub |-> FALSE]
                     n == Reinstall(c.s, "First", "AllocatorBuilder")
                 IN Res(r.ok, r.h, n, c.ub, TRUE)

(***************************************************************************)
(* The storage the caller instantiated: dispatch on its type.              *)
(***************************************************************************)
StorageAllocate(k, s, t, capacity, ok) ==
    CASE k \in InlineKinds -> InlineRangeAllocate(k, s, t, "Inline", capacity)
      [] k = "allocator" -> OfAlloc(AllocRangeAllocate(s, t, "Alloc", capacity, ok))
      [] k = "fallback" -> FallbackAllocate(k, s, t, capacity, ok)
      [] OTHER -> AltAllocate(k, s, t, capacity, ok)

StorageGet(k, s, h, g) ==
    CASE k \in InlineKinds -> InlinePtr(k)
      [] k = "allocator" -> HeapPtr(h)
      [] k = "fallback" -> FallbackGet(k, h)
      [] OTHER -> AltGet(k, s, h, g)

StorageTryGrow(k, s, t, h, new_capacity, ok, g, gv) ==
    CASE k \in InlineKinds -> IF DefaultTryResize THEN Res(TRUE, h, s, FALSE, FALSE) ELSE Fail(s)
      [] k = "allocator" -> OfAlloc(AllocRangeTryGrow(s, t, "Alloc", h, new_capacity, ok))
      [] k = "fallback" -> FallbackTryGrow(k, s, t, h, new_capacity, ok, gv)
      [] OTHER -> AltTryGrow(k, s, t, h, new_capacity, ok, g, gv)

StorageTryShrink(k, s, t, h, new_capacity, ok, g, gv) ==
    CASE k \in InlineKinds -> IF DefaultTryResize THEN Res(TRUE, h, s, FALSE, FALSE) ELSE Fail(s)
      [] k = "allocator" -> OfAlloc(AllocRangeTryShrink(s, t, "Alloc", h, new_capacity, ok))
      [] k = "fallback" -> FallbackTryShrink(k, s, t, h, new_capacity, ok, gv)
      [] OTHER -> AltTryShrink(k, s, t, h, new_capacity, ok, g, gv)

StorageDeallocate(k, s, h, g) ==
    CASE k \in InlineKinds -> s
      [] k = "allocator" -> AllocRangeDeallocate(s, h)
      [] k = "fallback" -> FallbackDeallocate(s, h)
      [] OTHER -> AltDeallocate(s, h, g)

\* Every public call of an Alternative panics on Inner::Poisoned.
Usable(s) == s.inner # "Poisoned"

\* Whether a call with handle h has to read a union field nobody wrote.
Torn(k, s, h) == k \in AltKinds /\ ReadsGarbage(s, h)

(***************************************************************************)
(* The caller of a range storage. It allocates when it holds no handle,    *)
(* keeps the new handle after a success and the old one after a failure,   *)
(* grows to more and shrinks to less than the buffer it sees, and fills    *)
(* the slice that get returns front to back: at position i the value       *)
(* Stamp(i), so that a moved or lost element shows.                        *)
(***************************************************************************)
NoCall ==
    [op |-> "none", zero |-> FALSE, ok |-> TRUE, sw |-> FALSE, arg |-> 0, back |-> 0,
     log |-> <<>>]

\* The storage between two calls: the record of allocator calls starts empty.
Settled(s) == [s EXCEPT !.log = <<>>]

EmptyHeap == [q \in {} |-> <<>>]

NewStorage(k, t) ==
    [inner |-> "First", builder |-> "AllocatorBuilder",
     inl |-> Fresh(PhysElems(k, t)), heap |-> EmptyHeap,
     allocated |-> 0, deallocated |-> 0, bad |-> FALSE, log |-> <<>>]

Called(op, cap, r) ==
    [op |-> op, zero |-> (cap = 0), ok |-> r.ok, sw |-> r.sw, arg |-> 0, back |-> 0,
     log |-> r.s.log, cap |-> cap]

NoGarbage == [ptr |-> 0, len |-> 0]

\* The garbage a call can meet: none unless the handle it is given is torn.
GarbageFor(k, s, h) == IF Torn(k, s, h) THEN Garbage ELSE {NoGarbage}

\* The values an out-of-bounds read can yield; it happens only when the slice of
\* the inline storage extends past the storage.
WildValues(k, t) == IF PhysElems(k, t) < NOf(k) THEN 0..MaxCap ELSE {Uninit}

\* The caller fills its buffer front to back: position i is the first one it has
\* not written yet.
NextToWrite(s, p, i) ==
    /\ ReadAt(s, p, i) \in {Uninit, Wild}
    /\ \A j \in 1..(i - 1) : ReadAt(s, p, j) \notin {Uninit, Wild}

InitRange ==
    /\ kind \in RangeKinds
    /\ T \in ElemTypes
    /\ st = NewStorage(kind, T)
    /\ held = NoHandle
    /\ ret = NoCall
    /\ ub = FALSE

Allocate ==
    /\ kind \in RangeKinds /\ ~ub /\ Usable(st) /\ held = NoHandle
    /\ \E capacity \in 0..MaxCap, ok \in BOOLEAN :
        \E r \in {StorageAllocate(kind, st, T, capacity, ok)} :
           /\ st' = Settled(r.s)
           /\ held' = IF r.ok THEN r.h ELSE held
           /\ ret' = Called("allocate", capacity, r)
           /\ ub' = r.ub
    /\ UNCHANGED <<kind, T>>

Write ==
    /\ kind \in RangeKinds /\ ~ub /\ Usable(st) /\ held # NoHandle
    /\ \E g \in GarbageFor(kind, st, held) :
        \E p \in {StorageGet(kind, st, held, g)} :
        \E i \in 1..p.len :
            /\ NextToWrite(st, p, i)
            /\ st' = WriteAt(st, p, i, Stamp(i))
            /\ ub' = (Torn(kind, st, held) \/ ~InBounds(st, p, i))
            /\ ret' = [NoCall EXCEPT !.op = "write"]
    /\ UNCHANGED <<kind, T, held>>

TryGrow ==
    /\ kind \in RangeKinds /\ ~ub /\ Usable(st) /\ held # NoHandle
    /\ \E ok \in BOOLEAN, new_capacity \in 1..MaxCap, gv \in WildValues(kind, T),
          g \in GarbageFor(kind, st, held) :
        /\ new_capacity > StorageGet(kind, st, held, g).len
        /\ \E r \in {StorageTryGrow(kind, st, T, held, new_capacity, ok, g, gv)} :
            /\ st' = Settled(r.s)
            /\ held' = IF r.ok THEN r.h ELSE held
            /\ ret' = Called("try_grow", new_capacity, r)
            /\ ub' = (Torn(kind, st, held) \/ r.ub)
    /\ UNCHANGED <<kind, T>>

TryShrink ==
    /\ kind \in RangeKinds /\ ~ub /\ Usable(st) /\ held # NoHandle
    /\ \E ok \in BOOLEAN, new_capacity \in 0..MaxCap, gv \in WildValues(kind, T),
          g \in GarbageFor(kind, st, held) :
        /\ new_capacity < StorageGet(kind, st, held, g).len
        /\ \E r \in {StorageTryShrink(kind, st, T, held, new_capacity, ok, g, gv)} :
            /\ st' = Settled(r.s)
            /\ held' = IF r.ok THEN r.h ELSE held
            /\ ret' = Called("try_shrink", new_capacity, r)
            /\ ub' = (Torn(kind, st, held) \/ r.ub)
    /\ UNCHANGED <<kind, T>>

Deallocate ==
    /\ kind \in RangeKinds /\ ~ub /\ Usable(st) /\ held # NoHandle
    /\ \E g \in GarbageFor(kind, st, held) :
        \E s2 \in {StorageDeallocate(kind, st, held, g)} :
        /\ st' = Settled(s2)
        /\ held' = NoHandle
        /\ ret' = Called("deallocate", 0, Res(TRUE, NoHandle, s2, FALSE, FALSE))
        /\ ub' = Torn(kind, st, held)
    /\ UNCHANGED <<kind, T>>

NextRange == Allocate \/ Write \/ TryGrow \/ TryShrink \/ Deallocate

Spec == InitRange /\ [][NextRange]_vars

(***************************************************************************)
(* alternative/single_element.rs: SingleElement<F, S, FB, SB>. F is a      *)
(* storage with one inline slot of the placeholder's layout, S one that    *)
(* asks the injected allocator for each element; both create through       *)
(* SingleElementStorage::create of traits.rs (allocate, then write).       *)
(***************************************************************************)
ElemVals == 1..MaxVal

ElemRes(ok, h, s, sw, back) == [ok |-> ok, h |-> h, s |-> s, sw |-> sw, back |-> back]

\* F::allocate: the slot serves any type whose layout fits the placeholder.
FirstElementAllocate(s, t) ==
    IF validate_layout_for(t.size, t.align, InlineSize, InlineAlign)
    THEN [ok |-> TRUE, h |-> Handle("first", 0, 1), s |-> s]
    ELSE [ok |-> FALSE, h |-> NoHandle, s |-> s]

\* S::allocate: one block of the allocator per element.
SecondElementAllocate(s, t, ok) ==
    LET a == AllocatorAllocate(s, 1, ok) IN
    [ok |-> a.ok, h |-> IF a.ok THEN Handle("second", a.ptr, 1) ELSE NoHandle, s |-> a.s]

ElementPtr(s, h) ==
    IF s.inner = "First" THEN [base |-> "inline", ptr |-> 0, len |-> 1] ELSE HeapPtr(h)

\* SingleElementStorage::create of the trait: allocate, write the value through
\* the resolved pointer, or hand the value back.
StorageCreate(a, value, side) ==
    IF a.ok
    THEN LET p == IF side = "First" THEN [base |-> "inline", ptr |-> 0, len |-> 1]
                  ELSE HeapPtr(a.h)
         IN ElemRes(TRUE, a.h, WriteAt(a.s, p, 1, value), FALSE, 0)
    ELSE ElemRes(FALSE, NoHandle, a.s, FALSE, value)

ElemSwitched(r, k, t) ==
    [r EXCEPT !.s = Reinstall(DropInline(r.s, k, t), "Second", "DefaultBuilder"),
              !.sw = TRUE]

AltElemCreate(k, s, t, value, ok) ==
    IF s.inner = "First"
    THEN LET first == StorageCreate(FirstElementAllocate(s, t), value, "First") IN
         IF first.ok THEN first
         ELSE LET p == Poison(s)
                  r == StorageCreate(SecondElementAllocate(p, t, ok), first.back, "Second")
              IN ElemSwitched(r, k, t)
    ELSE StorageCreate(SecondElementAllocate(s, t, ok), value, "Second")

AltElemAllocate(k, s, t, ok) ==
    IF s.inner = "First"
    THEN LET first == FirstElementAllocate(s, t) IN
         IF first.ok THEN ElemRes(TRUE, first.h, first.s, FALSE, 0)
         ELSE LET p == Poison(s)
                  r == SecondElementAllocate(p, t, ok)
              IN ElemSwitched(ElemRes(r.ok, r.h, r.s, FALSE, 0), k, t)
    ELSE LET r == SecondElementAllocate(s, t, ok) IN ElemRes(r.ok, r.h, r.s, FALSE, 0)

AltElemDeallocate(s, h) ==
    IF s.inner = "First" THEN s ELSE AllocatorDeallocate(s, h.ptr, 1)

AltElemResolve(s, h) == ReadAt(s, ElementPtr(s, h), 1)

(***************************************************************************)
(* The caller of the Alternative single-element storage: it stores one     *)
(* element at a time, reads it back and destroys it.                       *)
(***************************************************************************)
ElemCalled(op, value, r) ==
    [op |-> op, zero |-> FALSE, ok |-> r.ok, sw |-> r.sw, arg |-> value, back |-> r.back,
     log |-> r.s.log]

CreateElement ==
    /\ kind = "alt_element" /\ ~ub /\ Usable(st) /\ held = NoHandle
    /\ \E value \in ElemVals, ok \in BOOLEAN :
        \E r \in {AltElemCreate(kind, st, T, value, ok)} :
            /\ st' = Settled(r.s)
            /\ held' = IF r.ok THEN r.h ELSE held
            /\ ret' = ElemCalled("create", value, r)
    /\ UNCHANGED <<kind, T, ub>>

AllocateElement ==
    /\ kind = "alt_element" /\ ~ub /\ Usable(st) /\ held = NoHandle
    /\ \E ok \in BOOLEAN :
        \E r \in {AltElemAllocate(kind, st, T, ok)} :
            /\ st' = Settled(r.s)
            /\ held' = IF r.ok THEN r.h ELSE held
            /\ ret' = ElemCalled("allocate", 0, r)
    /\ UNCHANGED <<kind, T, ub>>

ResolveElement ==
    /\ kind = "alt_element" /\ ~ub /\ Usable(st) /\ held # NoHandle
    /\ ret' = [NoCall EXCEPT !.op = "resolve", !.back = AltElemResolve(st, held)]
    /\ UNCHANGED <<kind, T, st, held, ub>>

DestroyElement ==
    /\ kind = "alt_element" /\ ~ub /\ Usable(st) /\ held # NoHandle
    /\ \E s2 \in {AltElemDeallocate(st, held)} :
        /\ st' = Settled(s2)
        /\ ret' = [NoCall EXCEPT !.op = "destroy", !.log = s2.log]
    /\ held' = NoHandle
    /\ UNCHANGED <<kind, T, ub>>

InitAlt ==
    /\ kind \in AltKinds \cup {"alt_element"}
    /\ T \in ElemTypes
    /\ st = NewStorage(kind, T)
    /\ held = NoHandle
    /\ ret = NoCall
    /\ ub = FALSE

NextAlt ==
    \/ Allocate \/ Write \/ TryGrow \/ TryShrink \/ Deallocate
    \/ CreateElement \/ AllocateElement \/ ResolveElement \/ DestroyElement

SpecAlt == InitAlt /\ [][NextAlt]_vars

(***************************************************************************)
(* inline/multi_element.rs: MultiElement<S, N>. A slot is an Overlay: the  *)
(* same bits hold the free list's link or the element, so a slot is one    *)
(* number here and both fields read it.                                    *)
(***************************************************************************)
MultiKinds == {"inline_multi", "fallback_multi"}

SlotIndexes == 0..(MultiN - 1)

\* get_unchecked: outside the array there is no slot to read or write.
SlotBits(s, i) == IF i \in DOMAIN s.data THEN s.data[i] ELSE Wild
SlotWrite(s, i, bits) == IF i \in DOMAIN s.data THEN [s EXCEPT !.data[i] = bits] ELSE s

\* MultiElement::default(): slot i links to i + 1, the last to the sentinel.
NewMultiStorage ==
    [next |-> IF MultiN = 0 THEN INVALID_NEXT ELSE 0,
     data |-> [i \in SlotIndexes |-> IF i = MultiN - 1 THEN INVALID_NEXT ELSE i + 1],
     heap |-> EmptyHeap, allocated |-> 0, deallocated |-> 0, bad |-> FALSE, log |-> <<>>]

validate_layout(t, storageSize, storageAlign) ==
    validate_layout_for(t.size, t.align, storageSize, storageAlign)

AllocatePopsFirst(s, t) ==
    IF s.next = INVALID_NEXT THEN [ok |-> FALSE, h |-> NoHandle, s |-> s]
    ELSE IF ~validate_layout(t, InlineSize, InlineAlign)
    THEN [ok |-> FALSE, h |-> NoHandle, s |-> [s EXCEPT !.next = SlotBits(s, s.next)]]
    ELSE [ok |-> TRUE, h |-> Handle("Inline", s.next, 1),
          s |-> [s EXCEPT !.next = SlotBits(s, s.next)]]

AllocateKeepsHead(s, t) ==
    IF ~validate_layout(t, InlineSize, InlineAlign) \/ s.next = INVALID_NEXT
    THEN [ok |-> FALSE, h |-> NoHandle, s |-> s]
    ELSE [ok |-> TRUE, h |-> Handle("Inline", s.next, 1), s |-> s]

InlineMultiAllocate(s, t) ==
    IF ~validate_layout(t, InlineSize, InlineAlign)
    THEN [ok |-> FALSE, h |-> NoHandle, s |-> s]
    ELSE IF s.next = INVALID_NEXT THEN [ok |-> FALSE, h |-> NoHandle, s |-> s]
    ELSE [ok |-> TRUE, h |-> Handle("Inline", s.next, 1),
          s |-> [s EXCEPT !.next = SlotBits(s, s.next)]]

\* deallocate that links the slot and leaves the head where it was.
DeallocateKeepsHead(s, h) == SlotWrite(s, h.ptr, s.next)

\* deallocate that links the slot to itself.
DeallocateLinksToItself(s, h) == [SlotWrite(s, h.ptr, h.ptr) EXCEPT !.next = h.ptr]

DeallocateLinksHeadSlot(s, h) ==
    [SlotWrite(s, 0, s.next) EXCEPT !.next = h.ptr]

InlineMultiDeallocate(s, h) ==
    [SlotWrite(s, h.ptr, s.next) EXCEPT !.next = h.ptr]

InlineMultiResolve(s, h) == SlotBits(s, h.ptr)

(***************************************************************************)
(* allocator/multi_element.rs: one block of the allocator per element.     *)
(***************************************************************************)
AllocMultiAllocate(s, ok) ==
    LET a == AllocatorAllocate(s, 1, ok) IN
    [ok |-> a.ok, h |-> IF a.ok THEN Handle("Heap", a.ptr, 1) ELSE NoHandle, s |-> a.s]

AllocMultiDeallocate(s, h) == AllocatorDeallocate(s, h.ptr, 1)

AllocMultiResolve(s, h) == ReadAt(s, HeapPtr(h), 1)

(***************************************************************************)
(* fallback.rs over element storages: Fallback<inline::MultiElement,       *)
(* allocator::MultiElement>; the handle is an enum, Primary or Secondary.  *)
(***************************************************************************)
AsPrimary(r) == [r EXCEPT !.h = IF r.ok THEN [r.h EXCEPT !.tag = "Primary"] ELSE r.h]
AsSecondary(r) == [r EXCEPT !.h = IF r.ok THEN [r.h EXCEPT !.tag = "Secondary"] ELSE r.h]

MultiResolve(k, s, h) ==
    IF k = "inline_multi" \/ h.tag = "Primary" THEN InlineMultiResolve(s, h)
    ELSE AllocMultiResolve(s, h)

\* deallocate that hands every handle to the primary.
MultiDeallocateIgnoresTag(k, s, h) == InlineMultiDeallocate(s, h)

MultiDeallocate(k, s, h) ==
    IF k = "inline_multi" \/ h.tag = "Primary" THEN InlineMultiDeallocate(s, h)
    ELSE AllocMultiDeallocate(s, h)

\* ptr::write through the pointer the handle resolves to.
MultiStore(k, s, h, value) ==
    IF k = "inline_multi" \/ h.tag = "Primary" THEN SlotWrite(s, h.ptr, value)
    ELSE WriteAt(s, HeapPtr(h), 1, value)

\* MultiElementStorage::create of the trait: allocate, write, or hand back.
MultiTraitCreate(k, a, value) ==
    IF a.ok THEN [ok |-> TRUE, h |-> a.h, s |-> MultiStore(k, a.s, a.h, value), back |-> 0]
    ELSE [ok |-> FALSE, h |-> NoHandle, s |-> a.s, back |-> value]

MultiAllocate(k, s, t, ok) ==
    IF k = "inline_multi" THEN InlineMultiAllocate(s, t)
    ELSE LET first == AsPrimary(InlineMultiAllocate(s, t)) IN
         IF first.ok THEN first ELSE AsSecondary(AllocMultiAllocate(first.s, ok))

MultiCreate(k, s, t, value, ok) ==
    IF k = "inline_multi" THEN MultiTraitCreate(k, InlineMultiAllocate(s, t), value)
    ELSE LET first == MultiTraitCreate(k, AsPrimary(InlineMultiAllocate(s, t)), value) IN
         IF first.ok THEN first
         ELSE MultiTraitCreate(k, AsSecondary(AllocMultiAllocate(first.s, ok)), first.back)

\* The destructor of the value behind the pointer that h resolves to in s.
drop_in_place(k, s, h) ==
    Logged(s, [call |-> "drop_in_place", ptr |-> h.ptr, n |-> MultiResolve(k, s, h)])

\* destroy that releases the slot before it runs the destructor.
DestroyReleasesFirst(k, s, h) ==
    drop_in_place(k, MultiDeallocate(k, s, h), h)

\* ElementStorage::destroy of the trait: get, drop_in_place, deallocate.
MultiDestroy(k, s, h) == MultiDeallocate(k, drop_in_place(k, s, h), h)

(***************************************************************************)
(* The caller of a multi-element storage: held is the set of its live      *)
(* handles, each with the value it stored there.                           *)
(***************************************************************************)
Fits(t) == validate_layout(t, InlineSize, InlineAlign)

MultiCalled(op, t, value, r) ==
    [op |-> op, zero |-> FALSE, ok |-> r.ok, sw |-> FALSE, arg |-> value, back |-> r.back,
     log |-> r.s.log, fits |-> Fits(t)]

Live(h, v) == [h |-> h, v |-> v]

InitMulti ==
    /\ kind \in MultiKinds
    /\ T = [size |-> 1, align |-> 1]
    /\ st = NewMultiStorage
    /\ held = {}
    /\ ret = NoCall
    /\ ub = FALSE

CreateMulti ==
    /\ kind \in MultiKinds
    /\ \E t \in ElemTypes, value \in ElemVals, ok \in BOOLEAN :
        \E r \in {MultiCreate(kind, st, t, value, ok)} :
            /\ st' = Settled(r.s)
            /\ held' = IF r.ok THEN held \cup {Live(r.h, value)} ELSE held
            /\ ret' = MultiCalled("create", t, value, r)
    /\ UNCHANGED <<kind, T, ub>>

AllocateMulti ==
    /\ kind \in MultiKinds
    /\ \E t \in ElemTypes, ok \in BOOLEAN :
        \E a \in {MultiAllocate(kind, st, t, ok)} :
            /\ st' = Settled(a.s)
            /\ held' = IF a.ok THEN held \cup {Live(a.h, MultiResolve(kind, a.s, a.h))}
                        ELSE held
            /\ ret' = MultiCalled("allocate", t, 0, [ok |-> a.ok, back |-> 0, s |-> a.s])
    /\ UNCHANGED <<kind, T, ub>>

DeallocateMulti ==
    /\ kind \in MultiKinds
    /\ \E e \in held :
        /\ \E s2 \in {MultiDeallocate(kind, st, e.h)} :
            /\ st' = Settled(s2)
            /\ ret' = MultiCalled("deallocate", T, 0, [ok |-> TRUE, back |-> 0, s |-> s2])
        /\ held' = held \ {e}
    /\ UNCHANGED <<kind, T, ub>>

DestroyMulti ==
    /\ kind \in MultiKinds
    /\ \E e \in held :
        /\ \E s2 \in {MultiDestroy(kind, st, e.h)} :
            /\ st' = Settled(s2)
            /\ ret' = MultiCalled("destroy", T, 0, [ok |-> TRUE, back |-> 0, s |-> s2])
        /\ held' = held \ {e}
    /\ UNCHANGED <<kind, T, ub>>

NextMulti == CreateMulti \/ AllocateMulti \/ DeallocateMulti \/ DestroyMulti

SpecMulti == InitMulti /\ [][NextMulti]_vars

(***************************************************************************)
(* allocator/multi_element.rs: MultiElement<A> with a SpyAllocator that may *)
(* fail, and a caller that counts its own calls. SpyAllocator::allocated   *)
(* counts the allocate calls it receives (st.requested), whether or not    *)
(* the allocation is served; st.allocated counts the blocks served.        *)
(***************************************************************************)
\* create that hands the value back without asking the allocator.
CreateNeverAsks(s, value, ok) ==
    [ok |-> FALSE, h |-> NoHandle, s |-> s, back |-> value]

\* MultiElement::create: allocator.allocate(Layout::new::<T>()), ptr::write.
AllocMultiCreate(s, value, ok) ==
    LET a == AllocatorAllocate(s, 1, ok)
        h == Handle("Heap", a.ptr, 1)
    IN IF a.ok THEN [ok |-> TRUE, h |-> h, s |-> WriteAt(a.s, HeapPtr(h), 1, value), back |-> 0]
       ELSE [ok |-> FALSE, h |-> NoHandle, s |-> a.s, back |-> value]

\* MultiElement::release: allocator.deallocate(handle.cast(), layout).
AllocMultiRelease(s, h) == AllocatorDeallocate(s, h.ptr, h.len)

\* ElementStorage::destroy of the trait: drop_in_place, then release.
AllocMultiDestroy(s, h) == AllocMultiRelease(s, h)

CallsOf(log, call) == Cardinality({i \in DOMAIN log : log[i].call = call})

\* The storage between two calls, the spy's allocate counter brought up to date.
Spied(s) == [Settled(s) EXCEPT !.requested = @ + CallsOf(s.log, "allocate")]

NewAllocMulti ==
    [heap |-> EmptyHeap, allocated |-> 0, deallocated |-> 0, requested |-> 0,
     bad |-> FALSE, log |-> <<>>]

\* The caller's own count: create calls, successful ones, destroy/release calls.
NoCalls == [creates |-> 0, created |-> 0, released |-> 0]

Counted(n, op, ok) ==
    IF op = "create"
    THEN [n EXCEPT !.creates = @ + 1, !.created = @ + (IF ok THEN 1 ELSE 0)]
    ELSE [n EXCEPT !.released = @ + 1]

InitAllocMulti ==
    /\ kind = "alloc_multi"
    /\ T \in ElemTypes
    /\ st = NewAllocMulti
    /\ held = {}
    /\ ret = [op |-> "none", ok |-> TRUE, arg |-> 0, back |-> 0, log |-> <<>>, n |-> NoCalls]
    /\ ub = FALSE

CreateAllocMulti ==
    /\ kind = "alloc_multi" /\ ret.n.creates < MaxCreates
    /\ \E value \in ElemVals, ok \in BOOLEAN :
        \E r \in {AllocMultiCreate(st, value, ok)} :
            /\ st' = Spied(r.s)
            /\ held' = IF r.ok THEN held \cup {Live(r.h, value)} ELSE held
            /\ ret' = [op |-> "create", ok |-> r.ok, arg |-> value, back |-> r.back,
                       log |-> r.s.log, n |-> Counted(ret.n, "create", r.ok)]
    /\ UNCHANGED <<kind, T, ub>>

DestroyAllocMulti ==
    /\ kind = "alloc_multi"
    /\ \E e \in held :
        /\ \E s2 \in {AllocMultiDestroy(st, e.h)} :
            /\ st' = Spied(s2)
            /\ ret' = [op |-> "destroy", ok |-> TRUE, arg |-> 0,
                       back |-> AllocMultiResolve(st, e.h),
                       log |-> s2.log, n |-> Counted(ret.n, "destroy", TRUE)]
        /\ held' = held \ {e}
    /\ UNCHANGED <<kind, T, ub>>

ReleaseAllocMulti ==
    /\ kind = "alloc_multi"
    /\ \E e \in held :
        /\ \E s2 \in {AllocMultiRelease(st, e.h)} :
            /\ st' = Spied(s2)
            /\ ret' = [op |-> "release", ok |-> TRUE, arg |-> 0, back |-> 0,
                       log |-> s2.log, n |-> Counted(ret.n, "release", TRUE)]
        /\ held' = held \ {e}
    /\ UNCHANGED <<kind, T, ub>>

NextAllocMulti == CreateAllocMulti \/ DestroyAllocMulti \/ ReleaseAllocMulti

SpecAllocMulti == InitAllocMulti /\ [][NextAllocMulti]_vars

(***************************************************************************)
(* small/single_element.rs: SingleElement<T, S, A> for an unsized T. Inner *)
(* is Inline(meta, data) or Allocated(pointer); the pointer is fat, so the *)
(* meta-data (here the layout of the value stored) is known on both sides. *)
(* A block of the allocator is as many bytes as the value's layout asks    *)
(* for; the value is kept in its first byte.                               *)
(***************************************************************************)
NoMeta == [size |-> 0, align |-> 0]

\* Inner::default(): Inline(MaybeUninit::uninit(), MaybeUninit::uninit()).
InnerDefault(s) == [s EXCEPT !.inner = "Inline", !.meta = NoMeta, !.slot = Uninit, !.ptr = 0]

NewSmallElement ==
    [inner |-> "Inline", meta |-> NoMeta, slot |-> Uninit, ptr |-> 0,
     heap |-> EmptyHeap, allocated |-> 0, deallocated |-> 0, bad |-> FALSE, log |-> <<>>]

\* A write that leaves an occupied inline slot alone and asks the allocator.
WriteSparesOccupiedSlot(s, v, value, ok) ==
    IF validate_layout(v, InlineSize, InlineAlign) /\ ~(s.inner = "Inline" /\ s.slot # Uninit)
    THEN [ok |-> TRUE, back |-> 0,
          s |-> [s EXCEPT !.inner = "Inline", !.meta = v, !.slot = value, !.ptr = 0]]
    ELSE LET a == AllocatorAllocate(s, v.size, ok) IN
         IF a.ok
         THEN [ok |-> TRUE, back |-> 0,
               s |-> [a.s EXCEPT !.heap[a.ptr][1] = value, !.inner = "Allocated",
                                 !.meta = v, !.ptr = a.ptr]]
         ELSE [ok |-> FALSE, back |-> value, s |-> a.s]

\* SingleElement::write, reached from create and create_unsize. It does not
\* look at what the storage holds.
SmallElemWrite(s, v, value, ok) ==
    IF validate_layout(v, InlineSize, InlineAlign)
    THEN [ok |-> TRUE, back |-> 0,
          s |-> [s EXCEPT !.inner = "Inline", !.meta = v, !.slot = value, !.ptr = 0]]
    ELSE LET a == AllocatorAllocate(s, v.size, ok) IN
         IF a.ok
         THEN [ok |-> TRUE, back |-> 0,
               s |-> [a.s EXCEPT !.heap[a.ptr][1] = value, !.inner = "Allocated",
                                 !.meta = v, !.ptr = a.ptr]]
         ELSE [ok |-> FALSE, back |-> value, s |-> a.s]

SmallElemGet(s) ==
    IF s.inner = "Inline" THEN s.slot
    ELSE ReadAt(s, [base |-> "heap", ptr |-> s.ptr, len |-> 1], 1)

\* destroy that deallocates and leaves Inner as it was.
DestroyKeepsInner(s) ==
    IF s.inner = "Allocated" THEN AllocatorDeallocate(s, s.ptr, s.meta.size) ELSE s

\* SingleElement::destroy: layout of the value, drop_in_place, mem::replace of
\* inner by the default, deallocate when it was Allocated.
SmallElemDestroy(s) ==
    IF s.inner = "Allocated"
    THEN AllocatorDeallocate(InnerDefault(s), s.ptr, s.meta.size)
    ELSE InnerDefault(s)

SmallElemCalled(op, v, value, r) ==
    [op |-> op, zero |-> FALSE, ok |-> r.ok, sw |-> FALSE, arg |-> value, back |-> r.back,
     log |-> r.s.log, fits |-> Fits(v)]

\* The caller of the small single-element storage: one value at a time.
CreateSmallElement ==
    /\ kind = "small_element" /\ held = NoHandle
    /\ \E v \in ElemTypes, value \in ElemVals, ok \in BOOLEAN :
        \E r \in {SmallElemWrite(st, v, value, ok)} :
            /\ st' = Settled(r.s)
            /\ held' = IF r.ok THEN Handle(r.s.inner, r.s.ptr, 1) ELSE held
            /\ ret' = SmallElemCalled("create", v, value, r)
    /\ UNCHANGED <<kind, T, ub>>

GetSmallElement ==
    /\ kind = "small_element" /\ held # NoHandle
    /\ ret' = [NoCall EXCEPT !.op = "get", !.back = SmallElemGet(st)]
    /\ UNCHANGED <<kind, T, st, held, ub>>

DestroySmallElement ==
    /\ kind = "small_element" /\ held # NoHandle
    /\ \E s2 \in {SmallElemDestroy(st)} :
        /\ st' = Settled(s2)
        /\ ret' = [NoCall EXCEPT !.op = "destroy", !.back = SmallElemGet(st), !.log = s2.log]
    /\ held' = NoHandle
    /\ UNCHANGED <<kind, T, ub>>

InitSmall ==
    /\ kind \in {"small", "small_element"}
    /\ T \in ElemTypes
    /\ st = IF kind = "small" THEN NewStorage(kind, T) ELSE NewSmallElement
    /\ held = NoHandle
    /\ ret = NoCall
    /\ ub = FALSE

NextSmall ==
    \/ Allocate \/ Write \/ TryGrow \/ TryShrink \/ Deallocate
    \/ CreateSmallElement \/ GetSmallElement \/ DestroySmallElement

SpecSmall == InitSmall /\ [][NextSmall]_vars

\* A caller that creates again while the storage holds a value (create is a safe
\* function). ret.live is the value the storage held when it was called; the
\* second value may differ from every first one.
CreateAgain ==
    /\ kind = "small_element" /\ held # NoHandle
    /\ \E v \in ElemTypes, value \in 1..(MaxVal + 1), ok \in BOOLEAN :
        \E r \in {SmallElemWrite(st, v, value, ok)} :
            /\ st' = Settled(r.s)
            /\ held' = IF r.ok THEN Handle(r.s.inner, r.s.ptr, 1) ELSE held
            /\ ret' = SmallElemCalled("create", v, value, r) @@ [live |-> SmallElemGet(st)]
    /\ UNCHANGED <<kind, T, ub>>

NextSmallAgain == NextSmall \/ CreateAgain

SpecSmallAgain == InitSmall /\ [][NextSmallAgain]_vars

(***************************************************************************)
(* traits.rs: the Capacity types usize, u8, u16 and u32, their widths      *)
(* scaled down. A caller converts a usize into the type and back.          *)
(***************************************************************************)
CapacityTypes == {"u8", "u16", "u32", "usize"}

RECURSIVE Pow2(_)
Pow2(k) == IF k = 0 THEN 1 ELSE 2 * Pow2(k - 1)

\* Width in bits of each type; usize is the widest.
Bits(c) ==
    CASE c = "u8" -> UsizeBits - 3
      [] c = "u16" -> UsizeBits - 2
      [] c = "u32" -> UsizeBits - 1
      [] OTHER -> UsizeBits

None == [some |-> FALSE, v |-> 0]
Some(v) == [some |-> TRUE, v |-> v]

\* Capacity::max(): u8::MAX, u16::MAX, u32::MAX, usize::MAX.
max(c) == Pow2(Bits(c)) - 1

\* from_usize that converts like `as`, dropping the high bits.
from_usize_wrapping(c, capacity) == Some(capacity % Pow2(Bits(c)))

\* Capacity::from_usize: Some(capacity) for usize, capacity.try_into().ok() for
\* the others: an error above the type's MAX, else the low bits.
from_usize(c, capacity) ==
    IF c = "usize" THEN Some(capacity)
    ELSE IF capacity > Pow2(Bits(c)) - 1 THEN None
    ELSE Some(capacity % Pow2(Bits(c)))

\* Capacity::into_usize: self, or `self as usize` (zero extension).
into_usize(c, v) == v % Pow2(UsizeBits)

InitCapacity ==
    /\ kind = "capacity"
    /\ T \in CapacityTypes
    /\ st \in 0..(Pow2(UsizeBits) - 1)
    /\ held = None
    /\ ret = [op |-> "none"]
    /\ ub = FALSE

FromUsize ==
    /\ kind = "capacity"
    /\ held' = from_usize(T, st)
    /\ ret' = [op |-> "from_usize"]
    /\ UNCHANGED <<kind, T, st, ub>>

IntoUsize ==
    /\ kind = "capacity" /\ held.some
    /\ st' = into_usize(T, held.v)
    /\ ret' = [op |-> "into_usize"]
    /\ UNCHANGED <<kind, T, held, ub>>

CapacityMax ==
    /\ kind = "capacity"
    /\ held' = Some(max(T))
    /\ ret' = [op |-> "max"]
    /\ UNCHANGED <<kind, T, st, ub>>

NextCapacity == FromUsize \/ IntoUsize \/ CapacityMax

SpecCapacity == InitCapacity /\ [][NextCapacity]_vars

(***************************************************************************)
(* inline/single_range.rs: SingleRange<C, S, N> for every capacity type C, *)
(* placeholder S (u8 or u32) and N whose array [S; N] has a layout, with   *)
(* the element type of the caller. st is the type's parameters, held the   *)
(* handle of the last successful allocate, ret the last call.              *)
(***************************************************************************)
Placeholders == { [size |-> 1, align |-> 1], [size |-> 4, align |-> 4] }

InlineParams ==
    { p \in [c : CapacityTypes, s : Placeholders, n : 0..MaxLayoutSize] :
        p.n * p.s.size <= MaxLayoutSize }

\* maximum_capacity::<T>(): min(C::max(), N) placeholders, counted in elements
\* of T if C can hold that count and in placeholders if not. The division
\* panics for a zero-sized T.
maximum_capacity(p, t) ==
    LET capacity == Min(into_usize(p.c, max(p.c)), p.n) IN
    IF t.size = 0 THEN [panic |-> TRUE, v |-> 0]
    ELSE LET elems == from_usize(p.c, (p.s.size * capacity) \div t.size) IN
         [panic |-> FALSE, v |-> IF elems.some THEN elems.v ELSE from_usize(p.c, capacity).v]

\* allocate::<T>(capacity): validate_array_layout::<T, [MaybeUninit<S>; N]>.
InlineParamAllocate(p, t, capacity) ==
    validate_array_layout(t, into_usize(p.c, capacity), p.n * p.s.size, p.s.align)

\* get::<T>(): NonNull::slice_from_raw_parts(data as *mut T, N).
InlineParamGet(p) == p.n

InitInline ==
    /\ kind = "inline_params"
    /\ T \in ElemTypes
    /\ st \in InlineParams
    /\ held = NoHandle
    /\ ret = [op |-> "none"]
    /\ ub = FALSE

MaximumCapacity ==
    /\ kind = "inline_params"
    /\ \E m \in {maximum_capacity(st, T)} :
          ret' = [op |-> "maximum_capacity", panic |-> m.panic, v |-> m.v]
    /\ UNCHANGED <<kind, T, st, held, ub>>

InlineAllocateCall ==
    /\ kind = "inline_params"
    /\ \E capacity \in 0..max(st.c) :
        \E ok \in {InlineParamAllocate(st, T, capacity)} :
           /\ ret' = [op |-> "allocate", cap |-> capacity, ok |-> ok]
           /\ held' = IF ok THEN Handle("inline", 0, 0) ELSE held
    /\ UNCHANGED <<kind, T, st, ub>>

InlineGetCall ==
    /\ kind = "inline_params" /\ held # NoHandle
    /\ ret' = [op |-> "get", len |-> InlineParamGet(st)]
    /\ UNCHANGED <<kind, T, st, held, ub>>

NextInline == MaximumCapacity \/ InlineAllocateCall \/ InlineGetCall

SpecInline == InitInline /\ [][NextInline]_vars

(***************************************************************************)
(* collections/raw_vec.rs: RawVec<T, S> over each range storage. The       *)
(* vector is the pair of its length and its handle; the storage it owns is *)
(* st. A pushed element is a value of 1..MaxVal.                           *)
(***************************************************************************)
VecKinds ==
    {"vec_inline", "vec_allocator", "vec_fallback", "vec_alternative", "vec_small", "vec_narrow"}

\* The S of RawVec<T, S> and of RawLinkedList<T, S>.
StorageOf(k) ==
    CASE k = "vec_inline" -> "inline"
      [] k = "vec_narrow" -> "inline_narrow"
      [] k = "vec_allocator" -> "allocator"
      [] k = "vec_fallback" -> "fallback"
      [] k = "vec_alternative" -> "alternative"
      [] k = "vec_small" -> "small"
      [] k = "list_inline" -> "inline_multi"
      [] OTHER -> "fallback_multi"

RawVec(len, data) == [len |-> len, data |-> data]
NoVec == RawVec(0, NoHandle)

\* raw_slice / raw_slice_mut: storage.get(self.data).
raw_slice(k, s, v, g) == StorageGet(StorageOf(k), s, v.data, g)

VecRes(ok, back, v, s, u, cap) ==
    [ok |-> ok, back |-> back, v |-> v, s |-> s, ub |-> u, cap |-> cap, panic |-> FALSE]

\* A call that unwinds: the vector and the storage are as the panic found them,
\* and the element is dropped by the unwinding.
VecPanic(v, s, u, cap) == [VecRes(FALSE, 0, v, s, u, cap) EXCEPT !.panic = TRUE]

\* S::Capacity::max() of the storage of the vector: the narrow inline storage
\* counts up to NarrowCapMax, every other storage here in usize.
VecCapacity(k) == IF k = "vec_narrow" THEN NarrowCapMax ELSE max("usize")

\* into_capacity: S::Capacity::from_usize(n).expect(..); FALSE is the panic.
into_capacity(k, n) == n <= VecCapacity(k)

\* try_push_grow: grow to cmp::max(1, len * 2); on Err the element goes back.
try_push_grow(k, s, t, v, e, ok, g, gv) ==
    LET new_cap == IF 1 > v.len * 2 THEN 1 ELSE v.len * 2
        r == StorageTryGrow(StorageOf(k), s, t, v.data, new_cap, ok, g, gv)
    IN
    IF ~into_capacity(k, new_cap) THEN VecPanic(v, s, FALSE, new_cap)
    ELSE IF ~r.ok THEN VecRes(FALSE, e, v, r.s, r.ub, new_cap)
    ELSE LET slice == StorageGet(StorageOf(k), r.s, r.h, g)
             w == WriteAt(r.s, slice, v.len + 1, e)
             u == r.ub \/ ~InBounds(r.s, slice, v.len + 1)
         IN IF ~into_capacity(k, v.len + 1) THEN VecPanic(RawVec(v.len, r.h), w, u, new_cap)
            ELSE VecRes(TRUE, 0, RawVec(v.len + 1, r.h), w, u, new_cap)

try_push(k, s, t, v, e, ok, g, gv) ==
    LET slice == raw_slice(k, s, v, g)
        w == WriteAt(s, slice, v.len + 1, e)
        u == ~InBounds(s, slice, v.len + 1)
    IN
    IF v.len >= slice.len THEN try_push_grow(k, s, t, v, e, ok, g, gv)
    ELSE IF ~into_capacity(k, v.len + 1) THEN VecPanic(v, w, u, 0)
    ELSE VecRes(TRUE, 0, RawVec(v.len + 1, v.data), w, u, 0)

\* pop: None when empty, else ptr::read of the last slot.
pop(k, s, v, g) ==
    IF v.len = 0 THEN [r |-> None, v |-> v, ub |-> FALSE]
    ELSE LET slice == raw_slice(k, s, v, g) IN
         [r |-> Some(ReadAt(s, slice, v.len)), v |-> RawVec(v.len - 1, v.data),
          ub |-> ~InBounds(s, slice, v.len)]

\* A drop that leaves the buffer with the storage.
DropKeepsBuffer(k, s, v, g) == s

\* Drop: clear() pops every element, then storage.release(self.data).
RawVecDrop(k, s, v, g) == StorageDeallocate(StorageOf(k), s, v.data, g)

\* RawVec::new: storage.acquire(0), which makes no allocator call.
RawVecNew(k, t) == StorageAllocate(StorageOf(k), NewStorage(StorageOf(k), t), t, 0, TRUE)

VecCalled(op, e, r) ==
    [op |-> op, zero |-> FALSE, ok |-> r.ok, sw |-> FALSE, arg |-> e, back |-> r.back,
     log |-> r.s.log, cap |-> r.cap, panic |-> r.panic]

\* A vector exists only when new did not panic on a refused acquire(0).
InitVec ==
    /\ kind \in VecKinds
    /\ T \in ElemTypes
    /\ RawVecNew(kind, T).ok
    /\ st = Settled(RawVecNew(kind, T).s)
    /\ held = RawVec(0, RawVecNew(kind, T).h)
    /\ ret = NoCall
    /\ ub = FALSE

\* try_push; the model stops the vector's growth at a capacity of MaxCap.
TryPush ==
    /\ kind \in VecKinds /\ ~ub /\ Usable(st) /\ held # NoVec
    /\ held.len < MaxCap
    /\ \E e \in 1..MaxVal, ok \in BOOLEAN, gv \in WildValues(StorageOf(kind), T),
          g \in GarbageFor(StorageOf(kind), st, held.data) :
        \E r \in {try_push(kind, st, T, held, e, ok, g, gv)} :
            /\ st' = Settled(r.s)
            /\ held' = r.v
            /\ ret' = VecCalled("try_push", e, r)
            /\ ub' = (Torn(StorageOf(kind), st, held.data) \/ r.ub)
    /\ UNCHANGED <<kind, T>>

Pop ==
    /\ kind \in VecKinds /\ ~ub /\ Usable(st) /\ held # NoVec
    /\ \E g \in GarbageFor(StorageOf(kind), st, held.data) :
        \E r \in {pop(kind, st, held, g)} :
            /\ held' = r.v
            /\ ret' = [NoCall EXCEPT !.op = "pop", !.ok = r.r.some, !.back = r.r.v]
            /\ ub' = (r.r.some /\ (Torn(StorageOf(kind), st, held.data) \/ r.ub))
    /\ UNCHANGED <<kind, T, st>>

DropVec ==
    /\ kind \in VecKinds /\ ~ub /\ Usable(st) /\ held # NoVec
    /\ \E g \in GarbageFor(StorageOf(kind), st, held.data) :
        \E s2 \in {RawVecDrop(kind, st, held, g)} :
            /\ st' = Settled(s2)
            /\ held' = NoVec
            /\ ret' = [NoCall EXCEPT !.op = "drop", !.log = s2.log]
            /\ ub' = Torn(StorageOf(kind), st, held.data)
    /\ UNCHANGED <<kind, T>>

NextVec == TryPush \/ Pop \/ DropVec

SpecVec == InitVec /\ [][NextVec]_vars

(***************************************************************************)
(* collections/raw_linked_list.rs: RawLinkedList<T, S> over the            *)
(* multi-element storages. A node, the pair of its `next` and its element, *)
(* lives in the slot or block of its handle; as the bits of a slot it is   *)
(* one number. The list itself is `next`; `pushed` is the elements it was  *)
(* given and has not returned, oldest first.                               *)
(***************************************************************************)
ListKinds == {"list_inline", "list_fallback"}

NodeBase == MultiN + MaxAllocs + 2

\* Option<S::Handle<Node>> as bits: None, a slot of the inline storage, a block.
LinkBits(next) ==
    IF ~next.some THEN 0
    ELSE IF next.v.tag = "Secondary" THEN MultiN + 1 + next.v.ptr
    ELSE 1 + next.v.ptr

LinkOf(k, bits) ==
    IF bits = 0 THEN None
    ELSE IF bits <= MultiN
    THEN Some(Handle(IF StorageOf(k) = "inline_multi" THEN "Inline" ELSE "Primary",
                     bits - 1, 1))
    ELSE Some(Handle("Secondary", bits - MultiN - 1, 1))

\* RawLinkedListNode { next, element } and its two fields.
RawLinkedListNode(next, element) == element * NodeBase + LinkBits(next)
NodeNext(k, bits) == LinkOf(k, bits % NodeBase)
NodeElement(bits) == bits \div NodeBase

RawLinkedList(next, pushed) == [next |-> next, pushed |-> pushed]

\* A push that links the new node to nothing.
PushUnlinked(k, s, t, l, value, ok) ==
    LET r == MultiCreate(StorageOf(k), s, t, RawLinkedListNode(None, value), ok) IN
    IF r.ok THEN [ok |-> TRUE, back |-> 0, s |-> r.s,
                  l |-> RawLinkedList(Some(r.h), Append(l.pushed, value))]
    ELSE [ok |-> FALSE, back |-> NodeElement(r.back), s |-> r.s, l |-> l]

\* push: storage.create(node), or the node's element back.
push(k, s, t, l, value, ok) ==
    LET r == MultiCreate(StorageOf(k), s, t, RawLinkedListNode(l.next, value), ok) IN
    IF r.ok THEN [ok |-> TRUE, back |-> 0, s |-> r.s,
                  l |-> RawLinkedList(Some(r.h), Append(l.pushed, value))]
    ELSE [ok |-> FALSE, back |-> NodeElement(r.back), s |-> r.s, l |-> l]

\* pop: copy the node out of the storage, release its handle, follow its next.
RawLinkedListPop(k, s, l) ==
    IF ~l.next.some THEN [r |-> None, s |-> s, l |-> l]
    ELSE LET node == MultiResolve(StorageOf(k), s, l.next.v) IN
         [r |-> Some(NodeElement(node)),
          s |-> MultiDeallocate(StorageOf(k), s, l.next.v),
          l |-> RawLinkedList(NodeNext(k, node),
                              SubSeq(l.pushed, 1, Len(l.pushed) - 1))]

\* clear, which Drop calls: pop until pop returns None.
RECURSIVE clear(_, _, _, _)
clear(k, s, l, fuel) ==
    IF fuel = 0 \/ ~l.next.some THEN [s |-> s, l |-> l]
    ELSE LET r == RawLinkedListPop(k, s, l) IN clear(k, r.s, r.l, fuel - 1)

ListCalled(op, value, ok, back, s) ==
    [op |-> op, zero |-> FALSE, ok |-> ok, sw |-> FALSE, arg |-> value, back |-> back,
     log |-> s.log]

InitList ==
    /\ kind \in ListKinds
    /\ T \in ElemTypes
    /\ st = NewMultiStorage
    /\ held = RawLinkedList(None, <<>>)
    /\ ret = NoCall
    /\ ub = FALSE

Push ==
    /\ kind \in ListKinds
    /\ \E value \in 1..(MaxVal + 1), ok \in BOOLEAN :
        \E r \in {push(kind, st, T, held, value, ok)} :
            /\ st' = Settled(r.s)
            /\ held' = r.l
            /\ ret' = ListCalled("push", value, r.ok, r.back, r.s)
    /\ UNCHANGED <<kind, T, ub>>

PopList ==
    /\ kind \in ListKinds
    /\ \E r \in {RawLinkedListPop(kind, st, held)} :
        /\ st' = Settled(r.s)
        /\ held' = r.l
        /\ ret' = ListCalled("pop", 0, r.r.some, r.r.v, r.s)
    /\ UNCHANGED <<kind, T, ub>>

ClearList ==
    /\ kind \in ListKinds
    /\ \E r \in {clear(kind, st, held, MultiN + MaxAllocs + 1)} :
        /\ st' = Settled(r.s)
        /\ held' = r.l
        /\ ret' = ListCalled("clear", 0, TRUE, 0, r.s)
    /\ UNCHANGED <<kind, T, ub>>

NextList == Push \/ PopList \/ ClearList

SpecList == InitList /\ [][NextList]_vars

(***************************************************************************)
(* collections/raw_box.rs: RawBox<T, S> over small::SingleElement and      *)
(* allocator::SingleElement. The box is its handle, with the type it was   *)
(* coerced to or not; st is the storage it owns together with the          *)
(* allocator. A new box gets a new storage over the same allocator.        *)
(***************************************************************************)
BoxKinds == {"box_small", "box_allocator"}

\* allocator::SingleElement::allocate, reached from create and create_unsize.
AllocElemCreate(s, v, value, ok) ==
    LET a == AllocatorAllocate(s, v.size, ok) IN
    IF a.ok
    THEN [ok |-> TRUE, back |-> 0,
          s |-> [WriteAt(a.s, [base |-> "heap", ptr |-> a.ptr, len |-> 1], 1, value)
                    EXCEPT !.inner = "Allocated", !.meta = v, !.ptr = a.ptr]]
    ELSE [ok |-> FALSE, back |-> value, s |-> a.s]

\* A destroy that keeps the block.
DestroyLeaksBlock(s) == InnerDefault(s)

\* allocator::SingleElement::destroy: layout of the value, drop_in_place,
\* deallocate; the storage dies with the box.
AllocElemDestroy(s) == AllocatorDeallocate(InnerDefault(s), s.ptr, s.meta.size)

RawBox(handle, unsized) == [handle |-> handle, unsized |-> unsized]
NoBox == RawBox(NoHandle, FALSE)

\* RawBox::new: storage.create(value); Err((value, storage)) when it fails.
RawBoxNew(k, s, v, value, ok) ==
    LET r == IF k = "box_small" THEN SmallElemWrite(s, v, value, ok)
             ELSE AllocElemCreate(s, v, value, ok)
    IN [ok |-> r.ok, back |-> r.back, s |-> r.s,
        b |-> IF r.ok THEN RawBox(Handle(r.s.inner, r.s.ptr, 1), FALSE) ELSE NoBox]

\* coerce: the handle with the metadata of U; the storage is moved as it is.
coerce(b) == [b EXCEPT !.unsized = TRUE]

\* Deref: storage.get(self.handle).
RawBoxDeref(k, s, b) == SmallElemGet(s)

\* Drop: storage.destroy(self.handle), then the storage itself.
RawBoxDrop(k, s, b) ==
    IF k = "box_small" THEN SmallElemDestroy(s) ELSE AllocElemDestroy(s)

InitBox ==
    /\ kind \in BoxKinds
    /\ T \in ElemTypes
    /\ st = NewSmallElement
    /\ held = NoBox
    /\ ret = NoCall
    /\ ub = FALSE

NewBox ==
    /\ kind \in BoxKinds /\ held = NoBox
    /\ \E v \in ElemTypes, value \in ElemVals, ok \in BOOLEAN :
        \E r \in {RawBoxNew(kind, st, v, value, ok)} :
            /\ st' = Settled(r.s)
            /\ held' = r.b
            /\ ret' = SmallElemCalled("new", v, value, r)
    /\ UNCHANGED <<kind, T, ub>>

CoerceBox ==
    /\ kind \in BoxKinds /\ held # NoBox /\ ~held.unsized
    /\ held' = coerce(held)
    /\ ret' = [NoCall EXCEPT !.op = "coerce"]
    /\ UNCHANGED <<kind, T, st, ub>>

DerefBox ==
    /\ kind \in BoxKinds /\ held # NoBox
    /\ ret' = [NoCall EXCEPT !.op = "deref", !.back = RawBoxDeref(kind, st, held)]
    /\ UNCHANGED <<kind, T, st, held, ub>>

DropBox ==
    /\ kind \in BoxKinds /\ held # NoBox
    /\ \E s2 \in {RawBoxDrop(kind, st, held)} :
        /\ st' = Settled(s2)
        /\ ret' = [NoCall EXCEPT !.op = "drop", !.log = s2.log]
    /\ held' = NoBox
    /\ UNCHANGED <<kind, T, ub>>

NextBox == NewBox \/ CoerceBox \/ DerefBox \/ DropBox

SpecBox == InitBox /\ [][NextBox]_vars

(***************************************************************************)
(* collections/raw_box.rs, try_in: RawBox<T, S> and RawBox<T, NS> with S   *)
(* and NS an alternative::SingleElement of an inline slot and an allocator *)
(* storage, both over the same allocator. st is the storage the box owns,  *)
(* with the allocator; a storage passed to new or to try_in is a new one.  *)
(***************************************************************************)
WithAllocatorOf(s, a) ==
    [s EXCEPT !.heap = a.heap, !.allocated = a.allocated, !.deallocated = a.deallocated,
              !.bad = a.bad, !.log = a.log]

\* The storage handed to new and to try_in.
NewOver(s, t) == WithAllocatorOf(NewStorage("alt_element", t), s)

\* ptr::drop_in_place of the value the handle resolves to.
ElemDropInPlace(s, h) ==
    Logged(s, [call |-> "drop_in_place", ptr |-> h.ptr, n |-> AltElemResolve(s, h)])

BoxRes(ok, b, s) == [ok |-> ok, b |-> b, s |-> s]

\* A try_in that destroys the value in the old storage once it is copied.
TryInDestroysOld(s, t, b, ok) ==
    LET a == AltElemAllocate("alt_element", NewOver(s, t), t, ok) IN
    IF ~a.ok THEN BoxRes(FALSE, b, WithAllocatorOf(s, a.s))
    ELSE LET n == WriteAt(a.s, ElementPtr(a.s, a.h), 1, AltElemResolve(s, b.handle))
             o == AltElemDeallocate(ElemDropInPlace(WithAllocatorOf(s, n), b.handle), b.handle)
         IN BoxRes(TRUE, RawBox(a.h, b.unsized), WithAllocatorOf(n, o))

\* RawBox::try_in: new_storage.allocate(meta), Err(this) when it fails; else
\* copy_nonoverlapping of the value into the new slot, old_storage.deallocate
\* of the old handle, and the box of the new handle and the new storage. The
\* old storage is forgotten.
try_in(s, t, b, ok) ==
    LET a == AltElemAllocate("alt_element", NewOver(s, t), t, ok) IN
    IF ~a.ok THEN BoxRes(FALSE, b, WithAllocatorOf(s, a.s))
    ELSE LET n == WriteAt(a.s, ElementPtr(a.s, a.h), 1, AltElemResolve(s, b.handle))
             o == AltElemDeallocate(WithAllocatorOf(s, n), b.handle)
         IN BoxRes(TRUE, RawBox(a.h, b.unsized), WithAllocatorOf(n, o))

\* RawBox::new over the Alternative: storage.create(value).
RawBoxNewIn(s, t, value, ok) ==
    LET r == AltElemCreate("alt_element", NewOver(s, t), t, value, ok) IN
    IF r.ok THEN BoxRes(TRUE, RawBox(r.h, FALSE), r.s)
    ELSE BoxRes(FALSE, NoBox, WithAllocatorOf(s, r.s))

\* Drop: storage.destroy(handle), which is get, drop_in_place, deallocate.
RawBoxDropIn(s, b) == AltElemDeallocate(ElemDropInPlace(s, b.handle), b.handle)

BoxCalled(op, value, r) ==
    [NoCall EXCEPT !.op = op, !.ok = r.ok, !.arg = value, !.log = r.s.log]

InitBoxIn ==
    /\ kind = "box_element"
    /\ T \in ElemTypes
    /\ st = NewStorage("alt_element", T)
    /\ held = NoBox
    /\ ret = NoCall
    /\ ub = FALSE

NewBoxIn ==
    /\ kind = "box_element" /\ held = NoBox
    /\ \E value \in 1..(MaxVal + 1), ok \in BOOLEAN :
        \E r \in {RawBoxNewIn(st, T, value, ok)} :
            /\ st' = Settled(r.s)
            /\ held' = r.b
            /\ ret' = BoxCalled("new", value, r)
    /\ UNCHANGED <<kind, T, ub>>

TryIn ==
    /\ kind = "box_element" /\ held # NoBox
    /\ \E ok \in BOOLEAN :
        \E r \in {try_in(st, T, held, ok)} :
            /\ st' = Settled(r.s)
            /\ held' = r.b
            /\ ret' = BoxCalled("try_in", 0, r)
    /\ UNCHANGED <<kind, T, ub>>

DerefBoxIn ==
    /\ kind = "box_element" /\ held # NoBox
    /\ ret' = [NoCall EXCEPT !.op = "deref", !.back = AltElemResolve(st, held.handle)]
    /\ UNCHANGED <<kind, T, st, held, ub>>

\* DerefMut: the caller assigns through storage.get(self.handle).
DerefMutBoxIn ==
    /\ kind = "box_element" /\ held # NoBox
    /\ \E value \in 1..(MaxVal + 1) :
        /\ st' = WriteAt(st, ElementPtr(st, held.handle), 1, value)
        /\ ret' = [NoCall EXCEPT !.op = "deref_mut", !.arg = value]
    /\ UNCHANGED <<kind, T, held, ub>>

CoerceBoxIn ==
    /\ kind = "box_element" /\ held # NoBox /\ ~held.unsized
    /\ held' = coerce(held)
    /\ ret' = [NoCall EXCEPT !.op = "coerce"]
    /\ UNCHANGED <<kind, T, st, ub>>

DropBoxIn ==
    /\ kind = "box_element" /\ held # NoBox
    /\ \E s2 \in {RawBoxDropIn(st, held)} :
        /\ st' = Settled(s2)
        /\ ret' = [NoCall EXCEPT !.op = "drop", !.log = s2.log]
    /\ held' = NoBox
    /\ UNCHANGED <<kind, T, ub>>

NextBoxIn == NewBoxIn \/ TryIn \/ DerefBoxIn \/ DerefMutBoxIn \/ CoerceBoxIn \/ DropBoxIn

SpecBoxIn == InitBoxIn /\ [][NextBoxIn]_vars

(***************************************************************************)
(* Properties of the range storages.                                       *)
(***************************************************************************)
\* The buffer a handle that was written through the right field resolves to.
Buffer(s, h) == StorageGet(kind, s, h, NoGarbage)

\* C1: when try_grow or try_shrink returns an error, the handle passed in is
\* still valid: get with it returns the same buffer, with the same length and
\* the same contents as before the call.
FailedResizeKeepsHandle ==
    [][(ret'.op \in {"try_grow", "try_shrink"} /\ ~ret'.ok /\ ~Torn(kind, st, held))
        => /\ held' = held
           /\ ~Torn(kind, st', held')
           /\ Buffer(st', held') = Buffer(st, held)
           /\ View(st', Buffer(st', held')) = View(st, Buffer(st, held))]_vars

\* C2: every deallocate that reaches the injected allocator of an
\* allocator-backed, Alternative or small range storage passes a pointer and
\* layout the allocator issued and has not taken back since.
DeallocateMatchesAllocation ==
    kind \in {"allocator", "alternative", "small"} => ~st.bad

\* C3: for an Alternative or small range storage, once the caller has
\* deallocated the handle it holds, the allocator has received as many
\* deallocations as it served allocations.
SwitchingNeverLeaks ==
    (kind \in AltKinds /\ ret.op = "deallocate" /\ ~ub)
        => st.deallocated = st.allocated

\* C9: when try_grow succeeds, the elements of the old buffer are found at the
\* same positions of the new buffer.
GrowPreservesPrefix ==
    [][(ret'.op = "try_grow" /\ ret'.ok /\ ~Torn(kind, st, held))
        => \A i \in 1..Buffer(st, held).len :
              ReadAt(st', Buffer(st', held'), i) = ReadAt(st, Buffer(st, held), i)]_vars

\* C10: allocate with capacity 0 succeeds on every range storage, for every
\* element type.
AllocateZeroSucceeds ==
    (ret.op = "allocate" /\ ret.zero) => ret.ok

(***************************************************************************)
(* Properties of the Alternative storages.                                 *)
(***************************************************************************)
\* C4: after any public call of an Alternative single-element or range storage
\* has returned, with a handle or with an error, the storage is First or
\* Second, never Poisoned.
NeverPoisoned == st.inner \in {"First", "Second"}

\* A call that went through Poisoned on its way back to First returned an error.
ReturnedThroughPoisoned == ret.op = "try_shrink" /\ ret.sw /\ ~ret.ok

\* C5: when create, allocate or try_grow of an Alternative in the First state
\* returns an error (First failed, then Second failed too), the storage is left
\* in the Second state with the builder of First salvaged, the caller keeps
\* what it held and create hands its value back.
FailedSwitchLeavesSecond ==
    [][(st.inner = "First" /\ ret'.op \in {"create", "allocate", "try_grow"} /\ ~ret'.ok)
        => /\ st'.inner = "Second"
           /\ st'.builder = "DefaultBuilder"
           /\ held' = held
           /\ ret'.back = ret'.arg]_vars

\* A create found First too small and the allocator of Second exhausted.
BothSidesFailed ==
    /\ ret.op = "create" /\ ret.sw /\ ~ret.ok
    /\ st.inner = "Second" /\ ret.back \in ElemVals

(***************************************************************************)
(* Properties of the multi-element storages.                               *)
(***************************************************************************)
\* C6: every live handle of a multi-element storage resolves to its own slot
\* and to the value stored through it, whatever calls were made on other
\* handles since.
LiveHandlesKeepTheirValue ==
    /\ \A e \in held : MultiResolve(kind, st, e.h) = e.v
    /\ \A e1, e2 \in held : e1.h = e2.h => e1 = e2

\* One element was destroyed while others stayed live, in the inline slots and
\* in the allocator.
LiveAcrossRelease ==
    /\ ret.op = "destroy"
    /\ \E e1, e2 \in held : e1.h.tag = "Primary" /\ e2.h.tag = "Secondary"

\* C7: on an inline MultiElement with N slots, a create of a value that fits a
\* slot succeeds exactly when fewer than N elements are live.
CreateSucceedsIffSlotFree ==
    [][(kind = "inline_multi" /\ ret'.op = "create" /\ ret'.fits)
        => (ret'.ok <=> Cardinality(held) < MultiN)]_vars

\* The create after the Nth found every slot taken and failed.
CreateOnFullStorageFailed ==
    /\ kind = "inline_multi" /\ ret.op = "create" /\ ret.fits /\ ~ret.ok
    /\ Cardinality(held) = MultiN /\ st.next = INVALID_NEXT

\* C8: a create or allocate on an inline MultiElement that fails returns the
\* value and leaves the free list's head, every link and every live element
\* as they were.
FailedCreateChangesNothing ==
    [][(kind = "inline_multi" /\ ret'.op \in {"create", "allocate"} /\ ~ret'.ok)
        => /\ st' = st
           /\ held' = held
           /\ ret'.back = ret'.arg]_vars

\* validate_layout refused the value while a slot was free and an element live.
LayoutFailedWithFreeSlot ==
    /\ kind = "inline_multi" /\ ret.op = "create" /\ ~ret.ok /\ ~ret.fits
    /\ st.next # INVALID_NEXT /\ held # {}

(***************************************************************************)
(* Properties of the allocator-backed storages: what reaches the injected  *)
(* allocator during one call.                                              *)
(***************************************************************************)
\* The size in bytes of the layout an allocator call carries.
LayoutSize(e) == e.n * T.size

\* C11: an allocator-backed SingleRange never passes a request of size zero or
\* a handle of length zero to the injected allocator; allocate(0) and a
\* deallocate of a handle of length zero make no allocator call at all.
NoZeroSizeRequest ==
    kind = "allocator"
        => /\ \A i \in DOMAIN ret.log : LayoutSize(ret.log[i]) > 0
           /\ (ret.op = "allocate" /\ ret.zero) => ret.log = <<>>

\* C12: on an allocator-backed SingleRange, try_shrink of a non-empty handle to
\* capacity 0 succeeds, calls the allocator's deallocate exactly once, with the
\* pointer and layout of the old buffer, and returns a handle of length 0; a
\* deallocate of a handle of length 0 makes no allocator call.
ShrinkToZeroDeallocatesOnce ==
    [][/\ (kind = "allocator" /\ ret'.op = "try_shrink" /\ ret'.zero /\ held.len > 0)
            => /\ ret'.ok
               /\ ret'.log = <<[call |-> "deallocate", ptr |-> held.ptr, n |-> held.len]>>
               /\ Matches(st, held.ptr, held.len)
               /\ held'.len = 0
               /\ StorageDeallocate(kind, st', held', NoGarbage) = st'
       /\ (kind = "allocator" /\ ret'.op = "deallocate" /\ held.len = 0)
            => ret'.log = <<>>]_vars

\* A written buffer was shrunk to nothing and its block went back to the allocator.
ShrunkToZero ==
    /\ kind = "allocator" /\ ret.op = "try_shrink" /\ ret.zero /\ ret.ok
    /\ held.len = 0 /\ st.deallocated = st.allocated /\ st.allocated > 0

\* C13: for an allocator-backed MultiElement, after any sequence of create and
\* destroy calls, the allocate calls the allocator received are as many as the
\* successful creates, the deallocate calls as many as the destroy and release
\* calls, and never more deallocate than allocate calls.
AllocateCallsAreSuccessfulCreates ==
    kind = "alloc_multi"
        => /\ st.requested = ret.n.created
           /\ st.deallocated = ret.n.released
           /\ st.deallocated <= st.requested

\* C13, amended: the allocate calls received are as many as the create calls,
\* successful or not; the allocations served are as many as the successful
\* creates; the deallocate calls are as many as the destroy and release calls,
\* each for a block that is live, and never more than the allocations served.
AllocatorAccounting ==
    kind = "alloc_multi"
        => /\ st.requested = ret.n.creates
           /\ st.allocated = ret.n.created
           /\ st.deallocated = ret.n.released
           /\ st.deallocated <= st.allocated
           /\ ~st.bad
           /\ Cardinality(DOMAIN st.heap) = st.allocated - st.deallocated

\* A create failed in the allocator, another was served and destroyed again.
FailedAndDestroyed ==
    /\ kind = "alloc_multi" /\ ret.op = "destroy"
    /\ ret.n.creates > ret.n.created /\ ret.n.released = ret.n.created

(***************************************************************************)
(* Properties of the small storages.                                       *)
(***************************************************************************)
\* Whether a range of `capacity` elements of T fits the small storage's placeholder.
RangeFits(capacity) == into_first(kind, capacity) /\ InlineAllocate(kind, T, capacity)

\* C14: in the small storages, a value or range whose layout fits the inline
\* placeholder is stored without any allocator call, one that does not fit
\* causes exactly one allocate call, and when that call fails the create or
\* allocate fails and the value is handed back.
FitsInlineOrAllocatesOnce ==
    [][/\ (kind = "small_element" /\ ret'.op = "create")
            => IF ret'.fits THEN ret'.ok /\ ret'.log = <<>>
               ELSE /\ Len(ret'.log) = 1 /\ ret'.log[1].call = "allocate"
                    /\ ret'.ok = (ret'.log[1].ptr # 0)
                    /\ ~ret'.ok => (ret'.back = ret'.arg /\ st' = st)
       /\ (kind = "small" /\ ret'.op = "allocate" /\ ~ub')
            => IF RangeFits(ret'.cap) THEN ret'.ok /\ ret'.log = <<>>
               ELSE (ret'.cap > 0 /\ LayoutArrayOk(T, ret'.cap))
                        => /\ Len(ret'.log) = 1 /\ ret'.log[1].call = "allocate"
                           /\ ret'.ok = (ret'.log[1].ptr # 0)]_vars

\* C15: destroying a heap-allocated value of a small SingleElement calls the
\* allocator's deallocate exactly once, with the pointer and layout of that
\* allocation, and resets the storage to the empty Inline state, so that a
\* following create of a value that fits the placeholder is stored inline with
\* no allocator call; destroying an inline value makes no allocator call.
DestroyDeallocatesOnceAndResets ==
    [][/\ (kind = "small_element" /\ ret'.op = "destroy")
            => /\ IF st.inner = "Allocated"
                  THEN /\ ret'.log = <<[call |-> "deallocate", ptr |-> st.ptr,
                                        n |-> st.meta.size]>>
                       /\ Matches(st, st.ptr, st.meta.size)
                       /\ st'.deallocated = st.deallocated + 1
                  ELSE ret'.log = <<>> /\ st'.deallocated = st.deallocated
               /\ ~st'.bad
               /\ st' = InnerDefault(st')
               /\ DOMAIN st'.heap = {}
       /\ (kind = "small_element" /\ ret'.op = "create" /\ ret'.fits)
            => /\ ret'.ok /\ ret'.log = <<>>
               /\ st'.inner = "Inline" /\ SmallElemGet(st') = ret'.arg]_vars

\* A value that fits was created inline after a heap value had been destroyed.
InlineAfterHeapDestroyed ==
    /\ kind = "small_element" /\ ret.op = "create" /\ ret.fits
    /\ st.inner = "Inline" /\ st.deallocated > 0 /\ st.deallocated = st.allocated

(***************************************************************************)
(* Properties of the side switch of an Alternative.                        *)
(***************************************************************************)
\* The caller has written every element of the buffer its handle resolves to.
Filled(s, h) ==
    LET b == Buffer(s, h) IN b.len > 0 /\ \A i \in 1..b.len : ReadAt(s, b, i) = Stamp(i)

\* C16: when the inline First side of an Alternative is filled to capacity and
\* one more element is stored, the storage is on its Second side afterwards and
\* every element stored before is still resolved through its unchanged handle,
\* with its original value.
SwitchKeepsHandles ==
    [][(kind \in AltKinds /\ st.inner = "First" /\ Filled(st, held)
            /\ ret'.op = "try_grow" /\ ret'.ok)
        => /\ st'.inner = "Second"
           /\ ~Torn(kind, st', held)
           /\ \A i \in 1..Buffer(st, held).len :
                 ReadAt(st', Buffer(st', held), i) = Stamp(i)]_vars

\* C16, amended: when the inline First side of an Alternative SingleRange is
\* filled to capacity and try_grow makes room for one more element, the storage
\* is on its Second side afterwards and every element stored before is found
\* at its position, with its original value, through the handle that try_grow
\* returned; the handle passed in is the one handle of the storage and is
\* invalidated by the switch.
SwitchMovesElements ==
    [][(kind \in AltKinds /\ st.inner = "First" /\ Filled(st, held)
            /\ ret'.op = "try_grow" /\ ret'.ok)
        => /\ st'.inner = "Second" /\ ret'.sw /\ ~ub'
           /\ held'.tag = "second" /\ Torn(kind, st', held)
           /\ Buffer(st', held').len = ret'.cap
           /\ \A i \in 1..Buffer(st, held).len :
                 ReadAt(st', Buffer(st', held'), i) = Stamp(i)]_vars

\* A filled inline buffer was grown into a block of the allocator.
GrownOutOfFirst ==
    /\ kind \in AltKinds /\ ret.op = "try_grow" /\ ret.ok /\ ret.sw
    /\ st.inner = "Second" /\ held.tag = "second"
    /\ ReadAt(st, Buffer(st, held), 1) = Stamp(1)

(***************************************************************************)
(* Properties of Fallback.                                                 *)
(***************************************************************************)
\* The primary refuses every capacity of T: T is aligned more strictly than the
\* inline storage.
PrimaryNeverServes ==
    \A capacity \in 0..MaxCap :
        ~(into_first(kind, capacity) /\ InlineAllocate(kind, T, capacity))

\* The secondary served the request of the call that returned r: nothing to
\* allocate, or one allocate call that the allocator served.
SecondaryServed(r) ==
    \/ r.zero /\ r.log = <<>>
    \/ Len(r.log) = 1 /\ r.log[1].call = "allocate" /\ r.log[1].ptr # 0

PrimaryCanServe(s, r) == r.fits /\ s.next # INVALID_NEXT

\* C18: a Fallback create or allocate tries the primary first and calls the
\* secondary only when the primary failed; the handle is tagged Primary exactly
\* when the primary served it; resolve and deallocate with a handle go to the
\* sub-storage its tag names; when both fail, create returns the value.
HandlesRouteByTag ==
    [][kind = "fallback_multi"
        => /\ (ret'.op \in {"create", "allocate"})
                => /\ IF PrimaryCanServe(st, ret')
                      THEN /\ ret'.ok /\ ret'.log = <<>>
                           /\ \E e \in held' \ held :
                                e.h = Handle("Primary", st.next, 1) /\ held' = held \cup {e}
                      ELSE /\ Len(ret'.log) = 1 /\ ret'.log[1].call = "allocate"
                           /\ ret'.ok = (ret'.log[1].ptr # 0)
                           /\ ret'.ok
                                => \E e \in held' \ held :
                                     /\ e.h = Handle("Secondary", ret'.log[1].ptr, 1)
                                     /\ held' = held \cup {e}
                           /\ st'.next = st.next /\ st'.data = st.data
                   /\ ~ret'.ok => (held' = held /\ ret'.back = ret'.arg)
           /\ (ret'.op \in {"deallocate", "destroy"})
                => \E e \in held \ held' :
                     /\ held' = held \ {e}
                     /\ IF e.h.tag = "Primary"
                        THEN /\ CallsOf(ret'.log, "deallocate") = 0 /\ st'.heap = st.heap
                             /\ st' = InlineMultiDeallocate(st, e.h)
                        ELSE /\ \E i \in DOMAIN ret'.log :
                                    ret'.log[i] = [call |-> "deallocate", ptr |-> e.h.ptr, n |-> 1]
                             /\ CallsOf(ret'.log, "deallocate") = 1
                             /\ Matches(st, e.h.ptr, 1)
                             /\ st'.next = st.next /\ st'.data = st.data
           /\ \A e \in held' :
                /\ e.h.tag \in {"Primary", "Secondary"}
                /\ MultiResolve(kind, st', e.h)
                     = IF e.h.tag = "Primary" THEN InlineMultiResolve(st', e.h)
                       ELSE AllocMultiResolve(st', e.h)]_vars

\* A Secondary handle was deallocated while a Primary one stayed live.
RoutedBothWays ==
    /\ kind = "fallback_multi" /\ ret.op = "deallocate" /\ ret.log # <<>>
    /\ \E e \in held : e.h.tag = "Primary"

\* C19: Fallback try_grow on a Primary handle that the primary cannot grow: when
\* the secondary allocates the new capacity, min(old length, new length)
\* elements are copied, the primary buffer is deallocated exactly once and a
\* Secondary handle is returned; when the secondary allocation fails, the call
\* returns an error, nothing is copied and the primary buffer is not
\* deallocated.
GrowAcrossTiers ==
    [][(kind = "fallback" /\ ret'.op = "try_grow" /\ held.tag = "Primary")
        => IF ret'.ok
           THEN /\ held'.tag = "Secondary" /\ Buffer(st', held').len = ret'.cap
                /\ ~ub'
                /\ \A i \in 1..Min(Buffer(st, held).len, Buffer(st', held').len) :
                      ReadAt(st', Buffer(st', held'), i) = ReadAt(st, Buffer(st, held), i)
                /\ CallsOf(ret'.log, "primary.deallocate") = 1
                /\ CallsOf(ret'.log, "allocate") = 1
                /\ Len(ret'.log) = 2
           ELSE /\ held' = held /\ st' = st
                /\ CallsOf(ret'.log, "primary.deallocate") = 0]_vars

(***************************************************************************)
(* Properties of the Capacity types.                                       *)
(***************************************************************************)
\* C20: for the Capacity types usize, u8, u16 and u32 and every value c of the
\* type, from_usize(into_usize(c)) is Some(c); from_usize(n) is None for every
\* n above max().into_usize() and Some for every n up to it.
CapacityRoundTrip ==
    kind = "capacity"
        => /\ \A c \in 0..max(T) : from_usize(T, into_usize(T, c)) = Some(c)
           /\ held.some
                => /\ held.v \in 0..max(T)
                   /\ from_usize(T, into_usize(T, held.v)) = held
           /\ IF st > into_usize(T, max(T)) THEN from_usize(T, st) = None
              ELSE from_usize(T, st) = Some(st)
           /\ (ret.op = "from_usize") => held = from_usize(T, st)

\* A usize above u8::MAX was refused by u8 and taken by u16.
RefusedAboveMax ==
    /\ kind = "capacity" /\ T = "u8" /\ ret.op = "from_usize"
    /\ st > into_usize(T, max(T)) /\ held = None /\ from_usize("u16", st).some

(***************************************************************************)
(* Properties of the inline storages.                                      *)
(***************************************************************************)
\* C21: on an inline SingleRange, try_grow and try_shrink return an error for
\* every handle and every capacity, also one that would fit the buffer, and
\* change nothing; deallocate changes nothing either, and get returns the same
\* buffer with the same contents before and after each of these calls.
InlineCapacityIsFixed ==
    [][(kind = "inline" /\ ret'.op \in {"try_grow", "try_shrink", "deallocate"})
        => /\ st' = st
           /\ Buffer(st', held) = Buffer(st, held)
           /\ View(st', Buffer(st', held)) = View(st, Buffer(st, held))
           /\ ret'.log = <<>>
           /\ (ret'.op # "deallocate") => (~ret'.ok /\ held' = held)]_vars

\* A try_shrink to a capacity that fits was refused on a buffer holding an element.
InlineShrinkRefused ==
    /\ kind = "inline" /\ ret.op = "try_shrink" /\ ~ret.ok
    /\ InlineAllocate(kind, T, ret.cap)
    /\ ReadAt(st, Buffer(st, held), 1) = Stamp(1)

(***************************************************************************)
(* Properties of destroy.                                                  *)
(***************************************************************************)
\* C22: destroy on an element storage runs the destructor of the stored value
\* exactly once and then releases the slot exactly once: the destructor runs
\* on the pointer resolved from the handle while the slot is still allocated,
\* and deallocate runs no destructor.
DestroyDropsThenReleases ==
    [][/\ (ret'.op = "destroy")
            => \E e \in held \ held' :
                 /\ held' = held \ {e}
                 /\ ret'.log[1] = [call |-> "drop_in_place", ptr |-> e.h.ptr, n |-> e.v]
                 /\ CallsOf(ret'.log, "drop_in_place") = 1
                 /\ st' = Settled(MultiDeallocate(kind, st, e.h))
                 /\ (e.h.tag = "Secondary")
                        => /\ Len(ret'.log) = 2 /\ ret'.log[2].call = "deallocate"
                           /\ st'.deallocated = st.deallocated + 1
                 /\ (e.h.tag # "Secondary") => (Len(ret'.log) = 1 /\ st'.next = e.h.ptr)
       /\ (ret'.op = "deallocate") => CallsOf(ret'.log, "drop_in_place") = 0]_vars

\* A value in a block of the secondary was destroyed while an inline one lives.
DestroyedOnHeap ==
    /\ kind = "fallback_multi" /\ ret.op = "destroy" /\ Len(ret.log) = 2
    /\ \E e \in held : e.h.tag = "Primary"

OverflowIsRefusedEarly ==
    [][(/\ kind = "allocator"
        /\ ret'.op \in {"allocate", "try_grow", "try_shrink"}
        /\ ret'.cap * T.size > MaxLayoutSize)
        => /\ ~ret'.ok
           /\ ret'.log = <<>>
           /\ st' = st /\ held' = held
           /\ View(st', Buffer(st', held')) = View(st, Buffer(st, held))]_vars

\* A try_grow to an overflowing capacity was refused on a written block.
GrowOverflowRefused ==
    /\ kind = "allocator" /\ ret.op = "try_grow" /\ ~ret.ok
    /\ ret.cap * T.size > MaxLayoutSize
    /\ held.len = 1 /\ ReadAt(st, Buffer(st, held), 1) = Stamp(1)

(***************************************************************************)
(* Properties of the collections.                                          *)
(***************************************************************************)
\* The elements of the vector v over the storage s.
Elements(s, v) ==
    [i \in 1..v.len |-> ReadAt(s, StorageGet(StorageOf(kind), s, v.data, NoGarbage), i)]

\* C25: a try_push that the storage refuses to grow for returns Err with the
\* pushed element and leaves the length, the handle and the stored elements of
\* the vector unchanged; the vector stays usable: its handle still names the
\* buffer it named before.
RejectedPushKeepsVector ==
    [][(kind \in VecKinds /\ ret'.op = "try_push" /\ ~ret'.ok /\ ~ret'.panic)
        => /\ ret'.back = ret'.arg
           /\ held' = held
           /\ Usable(st') /\ ~Torn(StorageOf(kind), st', held'.data)
           /\ Elements(st', held') = Elements(st, held)]_vars

\* C26: a RawVec over an allocator SingleRange has made no allocation as long
\* as it was never grown; after every successful push exactly one block is
\* outstanding (allocations served minus deallocations is 1) and it is the
\* block of the vector's handle; after drop every allocation served has been
\* deallocated; and a push on a full vector asks for the capacity
\* max(1, 2 * len), which the handle has when the push succeeds.
VecHoldsOneAllocation ==
    [][kind = "vec_allocator"
        => /\ (held' # NoVec /\ held'.data.len = 0)
                => (st'.allocated = 0 /\ st'.deallocated = 0)
           /\ (ret'.op = "try_push" /\ ret'.ok)
                => /\ st'.allocated - st'.deallocated = 1
                   /\ DOMAIN st'.heap = {held'.data.ptr}
                   /\ Matches(st', held'.data.ptr, held'.data.len)
           /\ (ret'.op = "try_push")
                => /\ ret'.cap = IF held.len < held.data.len THEN 0
                                 ELSE IF held.len = 0 THEN 1 ELSE 2 * held.len
                   /\ (ret'.ok /\ ret'.cap > 0) => held'.data.len = ret'.cap
           /\ (ret'.op = "drop")
                => /\ st'.allocated = st'.deallocated
                   /\ DOMAIN st'.heap = {} /\ ~st'.bad]_vars

\* A vector that grew twice was dropped.
GrownVecDropped ==
    /\ kind = "vec_allocator" /\ ret.op = "drop"
    /\ st.allocated = 2 /\ st.deallocated = 2

\* The slots of the inline storage reached from its free list's head, in order.
RECURSIVE FreeWalk(_, _, _)
FreeWalk(s, i, fuel) ==
    IF fuel = 0 \/ i \notin SlotIndexes THEN <<>>
    ELSE <<i>> \o FreeWalk(s, SlotBits(s, i), fuel - 1)

FreeSlots(s) == {FreeWalk(s, s.next, MultiN)[j] : j \in 1..Len(FreeWalk(s, s.next, MultiN))}

\* The nodes a storage holds: its taken slots and the allocator's live blocks.
NodesAllocated(s) == (MultiN - Cardinality(FreeSlots(s))) + Cardinality(DOMAIN s.heap)

\* C27: a RawLinkedList is a stack: pop returns the element pushed last among
\* those not yet popped, and None on an empty list; a successful push takes one
\* slot or allocation and a pop releases one; a rejected push returns the
\* element and leaves the list and the storage as they were; after clear (and
\* so after drop) the storage holds no node.
ListIsAStack ==
    [][(kind \in ListKinds)
        => /\ NodesAllocated(st') = Len(held'.pushed)
           /\ (ret'.op = "pop")
                => IF held.pushed = <<>>
                   THEN ~ret'.ok /\ held' = held /\ st' = st
                   ELSE /\ ret'.ok /\ ret'.back = held.pushed[Len(held.pushed)]
                        /\ held'.pushed = SubSeq(held.pushed, 1, Len(held.pushed) - 1)
                        /\ NodesAllocated(st') = NodesAllocated(st) - 1
           /\ (ret'.op = "push" /\ ret'.ok)
                => /\ held'.pushed = Append(held.pushed, ret'.arg)
                   /\ NodesAllocated(st') = NodesAllocated(st) + 1
           /\ (ret'.op = "push" /\ ~ret'.ok)
                => (ret'.back = ret'.arg /\ held' = held /\ st' = st)
           /\ (ret'.op = "clear")
                => (NodesAllocated(st') = 0 /\ ~held'.next.some /\ ~st'.bad)]_vars

\* A node in a block of the allocator was popped off a list of distinct elements.
PoppedHeapNode ==
    /\ kind = "list_fallback" /\ ret.op = "pop" /\ ret.ok /\ ret.log # <<>>
    /\ Len(held.pushed) = 2 /\ held.pushed[1] # held.pushed[2] /\ ret.back # held.pushed[2]

\* Whether a box of a value of the layout in ret needs a block of the allocator.
NeedsHeap(r) == kind = "box_allocator" \/ ~r.fits

\* C28: RawBox::new over the allocator or the small storage makes exactly one
\* allocate call when the value needs the heap and none when it fits inline,
\* and when it fails it hands the value back and leaves the storage as it was;
\* coerce makes no allocator call and keeps the handle's pointer and the value;
\* drop makes exactly one deallocate call, for the block new was served and
\* with its layout, when there is such a block, and none otherwise.
BoxAllocatesOnceAndReleasesOnce ==
    [][(kind \in BoxKinds)
        => /\ (ret'.op = "new" /\ ret'.ok)
                => /\ IF NeedsHeap(ret')
                      THEN /\ ret'.log = <<[call |-> "allocate", ptr |-> held'.handle.ptr,
                                            n |-> st'.meta.size]>>
                           /\ st'.allocated = st.allocated + 1
                           /\ Matches(st', held'.handle.ptr, st'.meta.size)
                      ELSE ret'.log = <<>> /\ st'.heap = st.heap
                   /\ (st'.meta.size > 0) => RawBoxDeref(kind, st', held') = ret'.arg
           /\ (ret'.op = "new" /\ ~ret'.ok)
                => /\ ret'.back = ret'.arg /\ held' = NoBox /\ st' = st
                   /\ NeedsHeap(ret') /\ CallsOf(ret'.log, "allocate") = 1
           /\ (ret'.op = "coerce")
                => /\ ret'.log = <<>> /\ st' = st
                   /\ held'.handle = held.handle
                   /\ RawBoxDeref(kind, st', held') = RawBoxDeref(kind, st, held)
           /\ (ret'.op = "drop")
                => IF st.inner = "Allocated"
                   THEN /\ ret'.log = <<[call |-> "deallocate", ptr |-> held.handle.ptr,
                                         n |-> st.meta.size]>>
                        /\ Matches(st, held.handle.ptr, st.meta.size)
                        /\ st'.deallocated = st.deallocated + 1
                        /\ held.handle.ptr \notin DOMAIN st'.heap /\ ~st'.bad
                   ELSE ret'.log = <<>> /\ st'.heap = st.heap]_vars

\* A second box over the small storage, one on the heap, was dropped.
HeapBoxDropped ==
    /\ kind = "box_small" /\ ret.op = "drop" /\ ret.log # <<>>
    /\ st.allocated = 2 /\ st.deallocated = 2

(***************************************************************************)
(* Properties of the free list of the inline MultiElement.                 *)
(***************************************************************************)
\* The free list as a walk from `next` finds it, given one step more than N.
FreeList(s) == FreeWalk(s, s.next, MultiN + 1)

\* C29: the inline MultiElement reuses slots in LIFO order: a fresh storage's
\* free list is 0, 1, ..., N-1; an allocate hands out the head of the free list
\* and leaves its tail, and a deallocate puts the slot in front of the free
\* list, so the slot handed out is the one deallocated last among the free ones.
SlotsAreReusedLIFO ==
    /\ FreeList(st) = [i \in 1..MultiN |-> i - 1]
    /\ [][(kind \in MultiKinds)
            => /\ (ret'.op \in {"create", "allocate"} /\ ret'.ok)
                    => \E e \in held' \ held :
                         /\ held' = held \cup {e}
                         /\ IF e.h.tag = "Secondary" THEN FreeList(st') = FreeList(st)
                            ELSE /\ FreeList(st) # <<>>
                                 /\ e.h.ptr = Head(FreeList(st))
                                 /\ FreeList(st') = Tail(FreeList(st))
               /\ (ret'.op \in {"deallocate", "destroy"})
                    => \E e \in held \ held' :
                         IF e.h.tag = "Secondary" THEN FreeList(st') = FreeList(st)
                         ELSE FreeList(st') = <<e.h.ptr>> \o FreeList(st)]_vars

\* The slot handed out is slot 1, freed after slot 0, which is still free.
LastFreedHandedOut ==
    /\ kind = "inline_multi" /\ ret.op = "create" /\ ret.ok
    /\ \E e \in held : held = {e} /\ e.h.ptr = 1
    /\ st.next = 0

\* The live handles of the inline storage (of the primary, under a Fallback).
LiveSlots == {e.h.ptr : e \in {x \in held : x.h.tag # "Secondary"}}

\* C30: in every state reached by allocate calls and by deallocate calls on
\* live handles, the free list of the inline MultiElement is acyclic, ends at
\* INVALID_NEXT, holds only indices below N and exactly the slots that are not
\* live; no slot belongs to two live handles; a walk of the free list ends
\* within N steps.
FreeListIsWellFormed ==
    kind \in MultiKinds
        => /\ Len(FreeList(st)) <= MultiN
           /\ \A i, j \in 1..Len(FreeList(st)) :
                 FreeList(st)[i] = FreeList(st)[j] => i = j
           /\ (IF FreeList(st) = <<>> THEN st.next
               ELSE SlotBits(st, FreeList(st)[Len(FreeList(st))])) = INVALID_NEXT
           /\ FreeSlots(st) \subseteq SlotIndexes
           /\ FreeSlots(st) = SlotIndexes \ LiveSlots
           /\ \A x, y \in held :
                 (x.h.tag # "Secondary" /\ y.h.tag # "Secondary" /\ x.h.ptr = y.h.ptr)
                     => x = y

\* Slot 0 was freed while slot 1, handed out after it, is live.
FreedOutOfOrder ==
    /\ kind = "inline_multi" /\ ret.op \in {"deallocate", "destroy"}
    /\ FreeList(st) # <<>> /\ Head(FreeList(st)) = 0 /\ 1 \in LiveSlots

(***************************************************************************)
(* Properties of the sides of an Alternative.                              *)
(***************************************************************************)
\* Whether the First side serves the request that ret records.
FirstServes(r) ==
    CASE r.op = "allocate" /\ kind \in AltKinds -> RangeFits(r.cap)
      [] r.op \in {"create", "allocate"} -> Fits(T)
      [] OTHER -> FALSE

\* C31: the side of an Alternative changes only from First to Second inside a
\* create, allocate or try_grow whose First-side attempt failed, and from
\* Second to First inside a try_shrink of a SingleRange in which the Second
\* side changed nothing; get, resolve and deallocate never change it, a
\* First-side success never changes it, and an Alternative SingleElement in
\* Second serves every later create or allocate from Second and stays there.
SidesChangeOnlyOnFailure ==
    [][/\ (st'.inner # st.inner)
            => \/ /\ st.inner = "First" /\ st'.inner = "Second"
                  /\ ret'.op \in {"create", "allocate", "try_grow"}
                  /\ ~FirstServes(ret') /\ ret'.sw
               \/ /\ st.inner = "Second" /\ st'.inner = "First"
                  /\ kind \in AltKinds /\ ret'.op = "try_shrink" /\ ret'.sw
                  /\ st'.allocated = st.allocated /\ st'.deallocated = st.deallocated
       /\ (ret'.op \in {"write", "resolve", "deallocate", "destroy"})
            => st'.inner = st.inner
       /\ (st.inner = "First" /\ FirstServes(ret'))
            => (st'.inner = "First" /\ ret'.ok /\ ret'.log = <<>>)
       /\ (kind = "alt_element" /\ st.inner = "Second")
            => /\ st'.inner = "Second"
               /\ (ret'.op \in {"create", "allocate"})
                    => /\ CallsOf(ret'.log, "allocate") = 1
                       /\ ret'.ok => held'.tag = "second"]_vars

\* A SingleRange went back to First in a try_shrink that the allocator refused.
ShrunkBackToFirst ==
    /\ kind = "alternative" /\ ret.op = "try_shrink" /\ ret.sw /\ ret.ok
    /\ st.inner = "First" /\ st.allocated = 1

\* The capacity is more than the capacity type of First can hold (the First of
\* "small" counts in usize).
BeyondFirst(k, capacity) ==
    \/ k = "alt_narrow" /\ capacity > NarrowCapMax
    \/ k = "alternative" /\ capacity > FirstCapMax

\* C32: an Alternative SingleRange hands its First side no capacity that
\* First's capacity type cannot represent. In the First state an allocate or
\* try_grow with such a capacity switches to Second and is served there, and a
\* try_shrink with it returns an error and changes nothing; in the Second
\* state a try_shrink with it never goes back to First, and when Second
\* refuses it the call returns an error and the handle names the same buffer
\* with the same elements.
UnrepresentableNeverReachesFirst ==
    [][(kind \in AltKinds /\ ret'.op \in {"allocate", "try_grow", "try_shrink"}
            /\ BeyondFirst(kind, ret'.cap))
        => /\ (st.inner = "First" /\ ret'.op # "try_shrink")
                => /\ ret'.sw /\ st'.inner = "Second"
                   /\ ret'.ok => held'.tag = "second"
                   /\ \A i \in DOMAIN ret'.log : ret'.log[i].call = "allocate"
           /\ (st.inner = "First" /\ ret'.op = "try_shrink")
                => (~ret'.ok /\ ~ret'.sw /\ st' = st /\ held' = held)
           /\ (st.inner = "Second" /\ ret'.op = "try_shrink")
                => /\ st'.inner = "Second" /\ ~ret'.sw
                   /\ ret'.ok => held'.tag = "second"
                   /\ (~ret'.ok /\ ~Torn(kind, st, held))
                        => /\ held' = held
                           /\ Buffer(st', held') = Buffer(st, held)
                           /\ View(st', Buffer(st', held')) = View(st, Buffer(st, held))]_vars

\* Second refused to shrink a written buffer to a capacity First cannot count.
RefusedShrinkStaysInSecond ==
    /\ kind = "alt_narrow" /\ ret.op = "try_shrink" /\ ~ret.ok
    /\ st.inner = "Second" /\ BeyondFirst(kind, ret.cap)
    /\ held.tag = "second" /\ ReadAt(st, Buffer(st, held), 1) = Stamp(1)

(***************************************************************************)
(* Properties of the inline SingleRange over its type parameters.          *)
(***************************************************************************)
\* C33: the buffer that get returns on an inline SingleRange, for an element
\* type that allocate accepted, lies inside the storage: its length times the
\* size of the element type is at most N times the size of the placeholder,
\* and its length is at most maximum_capacity of the element type.
GetStaysInsideStorage ==
    (kind = "inline_params" /\ ret.op = "get")
        => /\ ret.len * T.size <= st.n * st.s.size
           /\ ~maximum_capacity(st, T).panic
           /\ ret.len <= maximum_capacity(st, T).v

\* C34: maximum_capacity is the largest capacity that allocate accepts: it
\* returns a value, every capacity above it is refused by allocate, and it is
\* at most the capacity type's max and at most the number of elements that fit
\* in the storage's N placeholders.
MaximumCapacityBoundsAllocate ==
    /\ (kind = "inline_params" /\ ret.op = "maximum_capacity")
          => /\ ~ret.panic
             /\ ret.v <= max(st.c)
             /\ ret.v * T.size <= st.n * st.s.size
    /\ (kind = "inline_params" /\ ret.op = "allocate" /\ ret.ok)
          => /\ ~maximum_capacity(st, T).panic
             /\ ret.cap <= maximum_capacity(st, T).v

(***************************************************************************)
(* Properties of RawVec.                                                   *)
(***************************************************************************)
\* C35: try_push never panics: whatever the capacity type of the storage, a
\* push that cannot be stored returns Err with the element it was given.
TryPushNeverPanics ==
    (kind \in VecKinds /\ ret.op = "try_push")
        => (~ret.panic /\ (~ret.ok => ret.back = ret.arg))

\* C36: in every state that new, try_push, pop and clear reach, failed pushes
\* and growth across the sides of the storage included, the length of the
\* vector is at most the length of the buffer its handle resolves to, and that
\* buffer is the storage's; a successful push appends its element; pop returns
\* the last element and leaves the ones before it, so elements come back in
\* the reverse of the order they were pushed in; pop on an empty vector
\* returns None and leaves the storage alone.
VecIsAStackInsideItsBuffer ==
    [][(kind \in VecKinds /\ held' # NoVec)
        => /\ ~ub' /\ Usable(st') /\ ~Torn(StorageOf(kind), st', held'.data)
           /\ held'.len <= raw_slice(kind, st', held', NoGarbage).len
           /\ \A i \in 1..held'.len : InBounds(st', raw_slice(kind, st', held', NoGarbage), i)
           /\ (ret'.op = "try_push" /\ ret'.ok)
                => Elements(st', held') = Append(Elements(st, held), ret'.arg)
           /\ (ret'.op = "pop" /\ held.len > 0)
                => /\ ret'.ok /\ ret'.back = Elements(st, held)[held.len]
                   /\ Elements(st', held') = SubSeq(Elements(st, held), 1, held.len - 1)
           /\ (ret'.op = "pop" /\ held.len = 0)
                => (~ret'.ok /\ st' = st /\ held' = held)]_vars

(***************************************************************************)
(* Properties of the way back to the primary of a Fallback.                *)
(***************************************************************************)
\* C37: Fallback try_shrink on a Secondary handle moves the range to the
\* primary whenever the primary's capacity type holds the new capacity and the
\* primary accepts it: the first min(old, new) elements are found in the
\* primary's buffer, the secondary's block is deallocated exactly once and a
\* Primary handle is returned. Otherwise the call is the secondary's own
\* try_shrink: on success a Secondary handle of the new capacity, on failure
\* an error with the handle and the storage as they were. try_shrink on a
\* Primary handle makes no call to the secondary.
ShrinkAcrossTiers ==
    [][(kind = "fallback" /\ ret'.op = "try_shrink")
        => /\ (held.tag = "Secondary")
                => IF into_first(kind, ret'.cap) /\ InlineAllocate(kind, T, ret'.cap)
                   THEN /\ ret'.ok /\ held'.tag = "Primary" /\ ~ub'
                        /\ \A i \in 1..Min(held.len, ret'.cap) :
                              ReadAt(st', Buffer(st', held'), i) = ReadAt(st, Buffer(st, held), i)
                        /\ CallsOf(ret'.log, "deallocate") = 1 /\ Len(ret'.log) = 1
                        /\ ret'.log[1].ptr = held.ptr
                        /\ DOMAIN st'.heap = DOMAIN st.heap \ {held.ptr}
                   ELSE /\ ret'.ok => (held'.tag = "Secondary" /\ held'.len = ret'.cap)
                        /\ ~ret'.ok => (held' = held /\ st' = st)
                        /\ CallsOf(ret'.log, "primary.deallocate") = 0
           /\ (held.tag = "Primary")
                => (ret'.log = <<>> /\ st'.heap = st.heap)]_vars

(***************************************************************************)
(* Properties of create on an occupied small SingleElement.                *)
(***************************************************************************)
\* C38: when a small SingleElement holds a live value in its inline slot, a
\* further create is served by the allocator and the inline slot keeps the
\* first value.
FurtherCreateSparesInlineValue ==
    [][(kind = "small_element" /\ ret'.op = "create" /\ held # NoHandle /\ st.inner = "Inline")
        => /\ CallsOf(ret'.log, "allocate") = 1
           /\ ret'.ok => st'.inner = "Allocated"
           /\ st'.slot = st.slot]_vars

\* C38 (amended): create on a small SingleElement that holds a live value in
\* its inline slot does what it does on an empty one: a value whose layout fits
\* the placeholder is written into the inline slot, over the first value and
\* without a call to the allocator; a value that does not fit makes exactly
\* one allocate call, and the storage holds it in the block when the call
\* succeeds, and is left as it was, first value included, when it fails.
FurtherCreateOverwritesInlineValue ==
    [][(kind = "small_element" /\ ret'.op = "create" /\ held # NoHandle /\ st.inner = "Inline")
        => IF ret'.fits
           THEN /\ ret'.ok /\ ret'.log = <<>>
                /\ st'.inner = "Inline" /\ st'.slot = ret'.arg
                /\ SmallElemGet(st') = ret'.arg
           ELSE /\ CallsOf(ret'.log, "allocate") = 1 /\ Len(ret'.log) = 1
                /\ ret'.ok => (st'.inner = "Allocated" /\ SmallElemGet(st') = ret'.arg)
                /\ ~ret'.ok => (st' = st /\ held' = held /\ ret'.back = ret'.arg)]_vars

\* A second value that fits took the place of a different first one.
InlineValueOverwritten ==
    /\ kind = "small_element" /\ ret.op = "create" /\ "live" \in DOMAIN ret
    /\ ret.fits /\ ret.live \notin {Uninit, ret.arg}
    /\ st.inner = "Inline" /\ st.slot = ret.arg /\ st.allocated = 0

(***************************************************************************)
(* Properties of RawBox::try_in.                                           *)
(***************************************************************************)
\* C39: try_in moves the value of a box to another storage without running
\* its destructor. When the new storage cannot allocate, the box comes back
\* with its handle, and the old storage and the value are as they were. When
\* it can, the new box resolves to the same value, the old handle is
\* deallocated exactly once in the old storage (one deallocate call on the
\* allocator, for the old block, when the value was on the heap), and nothing
\* is dropped; the value is dropped exactly once, by the drop of the box that
\* holds it, which leaves no block behind.
TryInMovesWithoutDropping ==
    [][(kind = "box_element")
        => /\ (ret'.op = "try_in")
                => /\ CallsOf(ret'.log, "drop_in_place") = 0
                   /\ ~st'.bad
                   /\ IF ret'.ok
                      THEN /\ AltElemResolve(st', held'.handle) = AltElemResolve(st, held.handle)
                           /\ held'.unsized = held.unsized
                           /\ IF st.inner = "Second"
                              THEN /\ CallsOf(ret'.log, "deallocate") = 1
                                   /\ \E i \in DOMAIN ret'.log :
                                         ret'.log[i] = [call |-> "deallocate",
                                                        ptr |-> held.handle.ptr, n |-> 1]
                                   /\ held.handle.ptr \notin DOMAIN st'.heap
                                   /\ st'.deallocated = st.deallocated + 1
                              ELSE CallsOf(ret'.log, "deallocate") = 0
                           /\ Cardinality(DOMAIN st'.heap) <= 1
                      ELSE /\ held' = held /\ st' = st
                           /\ CallsOf(ret'.log, "deallocate") = 0
           /\ (ret'.op = "drop")
                => /\ CallsOf(ret'.log, "drop_in_place") = 1
                   /\ ret'.log[1] = [call |-> "drop_in_place", ptr |-> held.handle.ptr,
                                     n |-> AltElemResolve(st, held.handle)]
                   /\ DOMAIN st'.heap = {} /\ ~st'.bad
                   /\ st'.allocated = st'.deallocated]_vars

\* A box moved from one heap block to another: the old block was given back.
MovedBetweenBlocks ==
    /\ kind = "box_element" /\ ret.op = "try_in" /\ ret.ok
    /\ st.inner = "Second" /\ st.allocated = 2 /\ st.deallocated = 1
    /\ held.handle.tag = "second" /\ AltElemResolve(st, held.handle) = MaxVal + 1

====
